---- MODULE Spec2Model ----
(***************************************************************************)
(* A model of the build2 core: the target set (build2/target.cxx), the    *)
(* C++ compile rule's apply/inject_prerequisites with its dependency      *)
(* database and header-extraction restart loop (build2/cxx/compile.cxx),  *)
(* the prefix map lookup for auto-generated headers, next_make, and the   *)
(* script parsers (build2/test/script/parser.cxx,                         *)
(* libbuild2/script/parser.cxx).                                          *)
(*                                                                         *)
(* The state machines share the variable list; each has its own Init and  *)
(* Next (SpecTargets, SpecApply, SpecPrefix, ...) and leaves the other    *)
(* machines' variables at their idle values.                              *)
(***************************************************************************)
EXTENDS Integers, Sequences, FiniteSets, TLC

VARIABLES
  \* ---- target set (target.cxx) ----
  tset,        \* sequence of targets in construction order; index = object identity
  firstRet,    \* a watched key and the object its first insert returned (0: none yet)
  lastCall,    \* the last target_set call: [op, key, ret, inserted, sizeBefore, prev]
  \* ---- compile::apply / inject_prerequisites (compile.cxx) ----
  pc,          \* position in compile::apply / inject_prerequisites / perform_update
  dd,          \* the depdb object: [lines, pos, state, touch, mtime]
  env,         \* file system and rule facts: mtimes, what execute_direct does
  tgt,         \* the obj target: [mtime, prereqs, state]
  hst,         \* target_state of the source (index 0) and of each header
  inj,         \* locals of inject_prerequisites: cache, restart, skip_count, skip, lines read
  obs,         \* observations: compiler launches, restarts, snapshot of the initial db
  \* ---- prefix map lookup (compile.cxx, add lambda) ----
  pm,          \* the prefix map: set of [key, base] with distinct keys
  pmq,         \* the relative header being mapped: [dir, leaf]
  pmres,       \* result of the lookup: [done, ok, key, path]
  \* ---- /showIncludes parsing (compile.cxx, next_show and its caller) ----
  sh,          \* one MSVC header-extraction run: its lines, flags and outcome
  \* ---- path_target::derive_path (target.cxx) ----
  pt,          \* a path_target: [dir, name, ext, path] and its last derive_path call
  \* ---- target::recipe (target.cxx) ----
  rc,          \* a target: [action, recipe, raw_state, dependents] and the last call on it
  \* ---- script::parser::exec_lines (libbuild2/script/parser.cxx) ----
  sc,          \* a script run: [lines, i, li, stack] and what was executed with which index
  \* ---- $* and $N aliases (build2/test/script/parser.cxx) ----
  vr,          \* the script scope's variables: test, test.options, test.arguments, $*, $N
  \* ---- parse_command_expr (libbuild2/script/parser.cxx) ----
  hd,          \* the here-document redirects of one command line in both passes
  ce,          \* one command line in the execute pass: the expression and the command so far
  \* ---- compile::apply, prerequisite loop (compile.cxx) ----
  pq,          \* the prerequisites of the obj target and what apply did with each
  \* ---- next_make (compile.cxx) ----
  mk,          \* a make-rule line, the position in it and the names returned so far
  \* ---- depdb (as used by compile::apply) ----
  db,          \* a depdb file, the depdb object opened on it, and the calls made
  \* ---- inject_prerequisites, the extraction loop step by step (compile.cxx) ----
  ij,          \* one inject_prerequisites call: the loop's locals, the header in add, the runs
  \* ---- parse_here_document (libbuild2/script/parser.cxx) ----
  hb           \* one here-document body in both passes: its lines and the recorded tokens

vars == <<tset, firstRet, lastCall, pc, dd, env, tgt, hst, inj, obs, pm, pmq, pmres, sh, pt,
          rc, sc, vr, hd, ce, pq, mk, db, ij, hb>>

tsVars  == <<tset, firstRet, lastCall>>
apVars  == <<pc, dd, env, tgt, hst, inj, obs>>
pmVars  == <<pm, pmq, pmres>>
\* The variables of the machines that follow the first three.
yVars   == <<vr, hd, ce, pq, mk, db>>
\* The variables of the last two machines.
wVars   == <<ij, hb>>
xVars   == <<sh, pt, rc, sc, yVars, wVars>>
\* Everything but yVars.
zVars   == <<tsVars, apVars, pmVars, sh, pt, rc, sc, wVars>>
\* Everything but wVars.
uVars   == <<tsVars, apVars, pmVars, sh, pt, rc, sc, yVars>>

(***************************************************************************)
(* Idle values of the three machines.                                      *)
(***************************************************************************)
TsIdle == /\ tset = <<>>
          /\ firstRet = <<>>
          /\ lastCall = <<>>

ApIdle == /\ pc = "idle"
          /\ dd = <<>>
          /\ env = <<>>
          /\ tgt = <<>>
          /\ hst = <<>>
          /\ inj = <<>>
          /\ obs = <<>>

PmIdle == /\ pm = {}
          /\ pmq = <<>>
          /\ pmres = <<>>

ShIdle == sh = <<>>
PtIdle == pt = <<>>
RcIdle == rc = <<>>
ScIdle == sc = <<>>
VrIdle == vr = <<>>
HdIdle == hd = <<>>
CeIdle == ce = <<>>
PqIdle == pq = <<>>
MkIdle == mk = <<>>
DbIdle == db = <<>>
YIdle  == VrIdle /\ HdIdle /\ CeIdle /\ PqIdle /\ MkIdle /\ DbIdle
IjIdle == ij = <<>>
HbIdle == hb = <<>>
WIdle  == IjIdle /\ HbIdle
\* The idle values of every machine but the last two.
UIdle  == TsIdle /\ ApIdle /\ PmIdle /\ ShIdle /\ PtIdle /\ RcIdle /\ ScIdle /\ YIdle

(***************************************************************************)
(*                     TARGET SET  (build2/target.cxx)                     *)
(***************************************************************************)

\* Bounds of the target-set machine.
NumExts == 1
MaxTargets == 2

\* An extension pointer: nullptr (not yet decided), the empty string (no
\* extension) or a pooled, non-empty string.
NullExt == 0
EmptyExt == 1
Exts == NullExt .. (NumExts + 1)

\* The keys used: one type, directory and name, in the out tree (out empty)
\* or taken from the src tree (out set), with every extension.
Keys == [type : {"h"}, dir : {"d"}, out : {"", "o"}, name : {"n"}, ext : Exts]

\* The key of a target views the target's own fields (target.cxx:248 builds it
\* from &pt->dir, &pt->out, &pt->name, pt->ext).
TargetKey(t) == [type |-> t.type, dir |-> t.dir, out |-> t.out, name |-> t.name, ext |-> t.ext]

\* Equivalence of two keys in the map: all of type, dir, out and name equal,
\* and the extensions equal unless one of them is unspecified.
KeyEquiv(x, y) ==
  /\ x.type = y.type
  /\ x.dir = y.dir
  /\ x.out = y.out
  /\ x.name = y.name
  /\ (x.ext = NullExt \/ y.ext = NullExt \/ x.ext = y.ext)

\* map_.find (k): the first target, in key order, that is equivalent to k
\* (0 stands for end ()).
MapFind(s, k) ==
  LET m == {i \in 1..Len(s) : KeyEquiv(TargetKey(s[i]), k)}
  IN IF m = {} THEN 0
     ELSE CHOOSE i \in m : \A j \in m : s[i].ext <= s[j].ext

\* target_set::find: the extension update on a hit.
FindExtNever(t, k) == t.ext
FindExt(t, k) ==
  IF t.ext # k.ext /\ k.ext # NullExt THEN k.ext ELSE t.ext

\* target_set::find: the iterator and the set after the call.
find(s, k) ==
  LET i == MapFind(s, k)
  IN [i |-> i,
      s |-> IF i = 0 THEN s ELSE [s EXCEPT ![i].ext = FindExt(s[i], k)]]

\* tt.factory (tt, dir, out, name, ext)
factoryNoExt(k) == [type |-> k.type, dir |-> k.dir, out |-> k.out, name |-> k.name, ext |-> NullExt]
factory(k) == [type |-> k.type, dir |-> k.dir, out |-> k.out, name |-> k.name, ext |-> k.ext]

\* bool r (i == end ()) of target_set::insert.
InsertNeededMutant(i) == TRUE
InsertNeeded(i) == i = 0

\* target_set::insert: the target, the inserted flag and the set after the call.
insert(s, k) ==
  LET f == find(s, k)
      r == InsertNeeded(f.i)
  IN IF r
       THEN [i |-> Len(s) + 1, r |-> TRUE, s |-> Append(f.s, factory(k))]
       ELSE [i |-> f.i, r |-> FALSE, s |-> f.s]

\* The object the first insert of key k returned, when k is the watched key.
FirstOf(k) == IF firstRet.key = k THEN firstRet.ret ELSE 0

TsInit ==
  /\ tset = <<>>
  /\ \E k \in Keys : firstRet = [key |-> k, ret |-> 0]
  /\ lastCall = [op |-> "none", key |-> CHOOSE k \in Keys : TRUE, ret |-> 0,
                 inserted |-> FALSE, sizeBefore |-> 0, prev |-> 0, extBefore |-> NullExt]

InitTargets == TsInit /\ ApIdle /\ PmIdle /\ ShIdle /\ PtIdle /\ RcIdle /\ ScIdle /\ YIdle /\ WIdle

\* A call of target_set::insert with key k.
Insert(k) ==
  LET res == insert(tset, k)
  IN /\ Len(res.s) <= MaxTargets
     /\ tset' = res.s
     /\ firstRet' = IF firstRet.key = k /\ firstRet.ret = 0
                     THEN [firstRet EXCEPT !.ret = res.i] ELSE firstRet
     /\ lastCall' = [op |-> "insert", key |-> k, ret |-> res.i, inserted |-> res.r,
                     sizeBefore |-> Len(tset), prev |-> FirstOf(k),
                     extBefore |-> IF res.r THEN NullExt ELSE tset[res.i].ext]
     /\ UNCHANGED <<apVars, pmVars, xVars>>

\* A call of target_set::find with key k.
Find(k) ==
  LET res == find(tset, k)
  IN /\ tset' = res.s
     /\ lastCall' = [op |-> "find", key |-> k, ret |-> res.i, inserted |-> FALSE,
                     sizeBefore |-> Len(tset), prev |-> FirstOf(k),
                     extBefore |-> IF res.i = 0 THEN NullExt ELSE tset[res.i].ext]
     /\ UNCHANGED <<firstRet, apVars, pmVars, xVars>>

NextTargets ==
  \/ \E k \in Keys : Insert(k)
  \/ \E k \in Keys : Find(k)

SpecTargets == InitTargets /\ [][NextTargets]_vars

\* The targets that differ from key k at most in the extension.
Siblings(k) == {i \in 1..Len(tset) : KeyEquiv(TargetKey(tset[i]), [k EXCEPT !.ext = NullExt])}

NoEqualKeys == \A i, j \in 1..Len(tset) : i # j => TargetKey(tset[i]) # TargetKey(tset[j])

RepeatedInsert == lastCall.op = "insert" /\ lastCall.prev # 0

DeriveExtAlways(e, fe, de) == IF fe # NullExt THEN fe ELSE de
DeriveExt(e, fe, de) ==
  IF e # NullExt THEN e
  ELSE IF fe # NullExt THEN fe
  ELSE de

\* A call of derive_extension on target i of the set.  The assertion
\* de == nullptr || type ().extension != nullptr is the caller's obligation.
DeriveExtension(i, hasFn, fe, de) ==
  /\ i \in 1..Len(tset)
  /\ de = NullExt \/ hasFn
  /\ ~hasFn => fe = NullExt
  /\ LET e == DeriveExt(tset[i].ext, fe, de)
     IN /\ tset' = [tset EXCEPT ![i].ext = e]
        /\ lastCall' = [op |-> IF e = NullExt THEN "derive_fail" ELSE "derive",
                        key |-> TargetKey(tset[i]), ret |-> i, inserted |-> FALSE,
                        sizeBefore |-> Len(tset), prev |-> 0,
                        extBefore |-> tset[i].ext]
  /\ UNCHANGED <<firstRet, apVars, pmVars, xVars>>

NextExt ==
  \/ \E k \in Keys : Insert(k)
  \/ \E k \in Keys : Find(k)
  \/ \E i \in 1..MaxTargets, hasFn \in BOOLEAN, fe \in Exts, de \in Exts :
       DeriveExtension(i, hasFn, fe, de)

SpecExt == InitTargets /\ [][NextExt]_vars

\* C13: a step never changes an ext that is not nullptr (and never removes a
\* target).
C13_ExtStable ==
  [][/\ Len(tset') >= Len(tset)
     /\ \A i \in 1..Len(tset) :
          tset[i].ext # NullExt => tset'[i].ext = tset[i].ext]_vars

\* derive_extension and find called on a target whose ext was decided before.
C13_Witness ==
  /\ lastCall.op \in {"derive", "find"}
  /\ lastCall.ret # 0
  /\ lastCall.extBefore # NullExt
  /\ tset[lastCall.ret].ext = lastCall.extBefore
  /\ Len(tset) >= 2

\* The set holds targets with the type, dir, out and name of key k, all of them
\* with an ext that is neither nullptr nor the ext of k, which is not nullptr.
Conflicting(s, k) ==
  LET sib == {i \in 1..Len(s) : KeyEquiv(TargetKey(s[i]), [k EXCEPT !.ext = NullExt])}
  IN /\ k.ext # NullExt
     /\ sib # {}
     /\ \A i \in sib : s[i].ext \notin {NullExt, k.ext}

\* C14 (as claimed): a find or insert that supplies an ext different from the
\* non-null ext of the existing target does not succeed: it returns no target
\* and constructs none, and no target's ext is replaced.
C14_AsClaimed ==
  [][(lastCall'.op \in {"insert", "find"} /\ Conflicting(tset, lastCall'.key)) =>
       /\ lastCall'.ret = 0
       /\ tset' = tset]_vars

\* C14 (amended): such a call replaces no target's ext and raises no error:
\* the key matches no target, so find returns end () and insert constructs a
\* separate target with the supplied ext and reports inserted = true.
C14_DifferentExt ==
  [][(lastCall'.op \in {"insert", "find"} /\ Conflicting(tset, lastCall'.key)) =>
       /\ \A i \in 1..Len(tset) : tset'[i] = tset[i]
       /\ lastCall'.op = "find" => (lastCall'.ret = 0 /\ tset' = tset)
       /\ lastCall'.op = "insert" =>
            /\ lastCall'.inserted
            /\ lastCall'.ret = Len(tset) + 1
            /\ Len(tset') = Len(tset) + 1
            /\ TargetKey(tset'[Len(tset')]) = lastCall'.key]_vars

\* An insert that supplied another ext than the one of the existing target and
\* got a second target.
C14_Witness ==
  /\ lastCall.op = "insert"
  /\ lastCall.inserted
  /\ lastCall.sizeBefore = 1
  /\ lastCall.key.ext # NullExt
  /\ Len(tset) = 2
  /\ tset[1].ext \notin {NullExt, lastCall.key.ext}
  /\ KeyEquiv(TargetKey(tset[1]), [lastCall.key EXCEPT !.ext = NullExt])

\* C15: a find, or an insert that hits an existing target, with a non-null ext
\* for a target whose ext is nullptr sets the target's ext to it; with a
\* nullptr ext it leaves the target's ext as it was.
C15_ExtUpgrade ==
  (lastCall.op \in {"insert", "find"} /\ lastCall.ret # 0 /\ ~lastCall.inserted) =>
    /\ (lastCall.extBefore = NullExt /\ lastCall.key.ext # NullExt) =>
         tset[lastCall.ret].ext = lastCall.key.ext
    /\ lastCall.key.ext = NullExt => tset[lastCall.ret].ext = lastCall.extBefore

\* A find with an ext that upgraded a target inserted with ext nullptr.
C15_Witness ==
  /\ lastCall.op = "find"
  /\ lastCall.ret # 0
  /\ lastCall.extBefore = NullExt
  /\ lastCall.key.ext # NullExt
  /\ tset[lastCall.ret].ext = lastCall.key.ext

(***************************************************************************)
(*        DEPENDENCY DATABASE  (build2/depdb, consumed by compile.cxx)     *)
(***************************************************************************)

\* timestamp_nonexistent and timestamp_unknown; real times are 1..MaxTime.
Nonexistent == 0
Unknown == -1
MaxTime == 3
Times == 1..MaxTime
Now == MaxTime

\* A line of the database.  The four self-describing lines in their order, a
\* header path, or a malformed (unterminated) line.
FingerprintSwapped == <<"rule", "options", "compiler", "source">>
Fingerprint == <<"rule", "compiler", "options", "source">>
FpLine(i) == [k |-> Fingerprint[i], n |-> 0]
StaleFpLine(i) == [k |-> Fingerprint[i], n |-> 1]
HdrLine(h) == [k |-> "hdr", n |-> h]
BadLine == [k |-> "bad", n |-> 0]
NoLine == [k |-> "null", n |-> 0]

\* depdb dd (path): the database starts in read mode at its first line; a
\* missing file is an empty database with mtime timestamp_nonexistent.
DdOpen(lines, mtime) ==
  [lines |-> lines, pos |-> 0, state |-> "read", touch |-> FALSE, mtime |-> mtime]

DdReading(d) == d.state = "read"
DdWriting(d) == d.state = "write"

\* more (): in read mode and not at the end of the file.
DdMore(d) == d.state = "read" /\ d.pos < Len(d.lines)

\* Switching to write discards the tail of the file from the current position.
DdChangeKeepTail(d) == [d EXCEPT !.state = "write"]
DdChange(d) == [d EXCEPT !.lines = SubSeq(d.lines, 1, d.pos), !.state = "write"]

\* read (): the next line; no line in write mode and at the end of the file; a
\* malformed line invalidates the rest of the database.
DdRead(d) ==
  IF d.state # "read" \/ d.pos >= Len(d.lines) THEN [line |-> NoLine, d |-> d]
  ELSE IF d.lines[d.pos + 1] = BadLine THEN [line |-> NoLine, d |-> DdChange(d)]
  ELSE [line |-> d.lines[d.pos + 1], d |-> [d EXCEPT !.pos = d.pos + 1]]

\* write (line): appends at the current position, switching to write first.
DdWrite(d, v) ==
  LET w == IF d.state = "write" THEN d ELSE DdChange(d)
  IN [w EXCEPT !.lines = Append(w.lines, v), !.pos = Len(w.lines) + 1]

\* expect (line): a match stays in read mode; a mismatch overwrites the line
\* that was read, discards what follows it and leaves the database in write
\* mode.  old is the offending prior line (NoLine if there was none).
DdExpect(d, v) ==
  LET r == DdRead(d)
  IN IF r.line # NoLine /\ r.line = v
       THEN [old |-> NoLine, mismatch |-> FALSE, d |-> r.d]
       ELSE [old |-> r.line, mismatch |-> TRUE,
             d |-> DdWrite([r.d EXCEPT !.pos = d.pos], v)]

\* touch (): the file's mtime is to be updated even if nothing is written.
DdTouch(d) == [d EXCEPT !.touch = TRUE]

\* close (): flushes and closes; whatever was written ends the file (the tail
\* was discarded on the switch to write); a database still in read mode keeps
\* its content.  The mtime moves when the file was written or touched.
DdClose(d) ==
  [d EXCEPT !.state = "closed",
            !.mtime = IF d.state = "write" \/ d.touch THEN Now ELSE d.mtime]

(***************************************************************************)
(*      COMPILE RULE: apply, inject_prerequisites, perform_update          *)
(*                      (build2/cxx/compile.cxx)                           *)
(***************************************************************************)

\* Bounds of the compile machine: the headers, and the number of lines of one
\* compiler output.
NumHeaders == 2
MaxOut == 2

Headers == 1..NumHeaders
\* Index 0 of hst and env.hm is the source file (cxx& s).
Source == 0

\* The initial database files: missing, or the four self-describing lines (at
\* most one of them from a different compiler, option set or source) followed
\* by cached header lines and possibly a malformed line, after which nothing
\* is read.  Headers are interchangeable, so the recorded ones are numbered
\* in the order of their lines.
FpPart(m) == [i \in 1..Len(Fingerprint) |-> IF i = m THEN StaleFpLine(i) ELSE FpLine(i)]
CachedParts ==
  {[i \in 1..k |-> HdrLine(i)] \o tail : k \in 0..NumHeaders, tail \in {<<>>, <<BadLine>>}}
\* A database with the current fingerprint and any cached part, or one with a
\* stale line m whose cached part is a single header.
DbFiles ==
  {FpPart(0) \o ch : ch \in CachedParts}
    \cup {FpPart(m) \o <<HdrLine(1)>> : m \in 1..Len(Fingerprint)}
\* The mtime of an existing database file: older, equal and newer files exist.
DbTimes == {MaxTime - 1}

\* The outcomes of execute_direct on a target in state os.
ExecResults(os) == IF os = "unknown" THEN {"unchanged", "changed"} ELSE {os}

\* compile::apply, compile.cxx:262: the condition that forces the update.
ForceUpdateAlways(d, tmtime) == TRUE
ForceUpdateNoWriting(d, tmtime) == d.mtime > tmtime
ForceUpdateNoMtime(d, tmtime) == DdWriting(d)
ForceUpdate(d, tmtime) == DdWriting(d) \/ d.mtime > tmtime

\* The update lambda of inject_prerequisites: os is the state before, ns the
\* state after the (possible) execute_direct, ts the passed timestamp and mt
\* the target's mtime.
UpdateRestartAnd(os, ns, ts, mt) ==
  /\ os # "unchanged" /\ ns # os /\ ns # "unchanged"
  /\ ts # Unknown /\ ts < mt
UpdateRestartOnChanged(os, ns, ts, mt) ==
  IF os # "unchanged" /\ ns # "unchanged" THEN TRUE
  ELSE IF ts # Unknown THEN ts < mt \/ (ts = mt /\ ns # "changed")
  ELSE FALSE
UpdateRestart(os, ns, ts, mt) ==
  IF os # "unchanged" /\ ns # os /\ ns # "unchanged" THEN TRUE
  ELSE IF ts # Unknown THEN ts < mt \/ (ts = mt /\ ns # "changed")
  ELSE FALSE

\* The ways a target f (a header or the source) can be matched and updated
\* with timestamp ts: its state after match (on first sight), the result of
\* execute_direct, its mtime afterwards and the value update () returns.  The
\* mtime is loaded from the file system when it is first asked for, which
\* update () does only when ts is not timestamp_unknown; an executed recipe
\* that changes the file sets it.
UpdateOutcomes(f, ts) ==
  LET states == IF hst[f] = "unmatched" THEN {"unknown", "unchanged", "changed"}
                ELSE {hst[f]}
      mtimes == IF env.hm[f] # Unknown THEN {env.hm[f]}
                ELSE IF ts # Unknown THEN Times
                ELSE {Unknown}
  IN UNION {
       {[os |-> p[1], ns |-> ns,
         mt |-> IF p[1] = "unknown" /\ ns = "changed" THEN Now ELSE p[2],
         restart |-> UpdateRestart(p[1], ns, ts,
                       IF p[1] = "unknown" /\ ns = "changed" THEN Now ELSE p[2])] :
          ns \in ExecResults(p[1])} : p \in states \X mtimes}

\* bool cache (dd.reading ()) of inject_prerequisites.
UseCacheAlways(d) == TRUE
UseCache(d) == DdReading(d)

\* add (): dd.expect (pt.path ()) for a header that came from the compiler.
AddToDbNever(d, h, cache) == d
AddToDb(d, h, cache) == IF cache THEN d ELSE DdExpect(d, HdrLine(h)).d

\* skip_count++ after add ().
NextSkipCountStuck(n) == n
NextSkipCount(n) == n + 1

ApInit ==
  /\ pc = "expect"
  /\ \E exists \in BOOLEAN, file \in DbFiles, dm \in DbTimes :
       LET lines == IF exists THEN file ELSE <<>>
           mtime == IF exists THEN dm ELSE Nonexistent
       IN /\ dd = DdOpen(lines, mtime)
          /\ obs = [launches |-> 0, compiles |-> 0, rs |-> <<>>, db0 |-> lines,
                    dm0 |-> mtime, mism |-> FALSE, cachedAdds |-> 0,
                    last |-> [cache |-> FALSE, h |-> 0, os |-> "none", ns |-> "none",
                              ts |-> Unknown, mt |-> Unknown, restart |-> FALSE]]
  /\ env = [hm |-> [f \in {Source} \cup Headers |-> Unknown]]
  /\ \E tm \in {Nonexistent} \cup Times :
       tgt = [mtime |-> tm, mtime0 |-> tm, prereqs |-> <<Source>>, state |-> "unknown"]
  /\ hst = [f \in {Source} \cup Headers |-> "unmatched"]
  /\ inj = [fp |-> 1, cache |-> FALSE, restart |-> TRUE, skip_count |-> 0,
            skip |-> 0, opos |-> 0]

InitApply == ApInit /\ TsIdle /\ PmIdle /\ ShIdle /\ PtIdle /\ RcIdle /\ ScIdle /\ YIdle /\ WIdle

\* compile::apply, compile.cxx:208-257: the next of the four dd.expect () calls.
ExpectFp ==
  /\ pc = "expect"
  /\ LET e == DdExpect(dd, FpLine(inj.fp))
     IN /\ dd' = e.d
        /\ obs' = [obs EXCEPT !.mism = obs.mism \/ e.mismatch]
  /\ inj' = [inj EXCEPT !.fp = inj.fp + 1]
  /\ pc' = IF inj.fp = Len(Fingerprint) THEN "force" ELSE "expect"
  /\ UNCHANGED <<env, tgt, hst, tsVars, pmVars, xVars>>

\* compile::apply, compile.cxx:262-263.
ForceCheck ==
  /\ pc = "force"
  /\ tgt' = IF ForceUpdate(dd, tgt.mtime) THEN [tgt EXCEPT !.mtime = Nonexistent] ELSE tgt
  /\ pc' = "src"
  /\ UNCHANGED <<dd, env, hst, inj, obs, tsVars, pmVars, xVars>>

\* inject_prerequisites, compile.cxx:968-986: cache = dd.reading () and the
\* update of the source file.
UpdateSource ==
  /\ pc = "src"
  /\ \E o \in UpdateOutcomes(Source, dd.mtime) :
       /\ hst' = [hst EXCEPT ![Source] = o.ns]
       /\ env' = [env EXCEPT !.hm[Source] = o.mt]
       /\ inj' = [inj EXCEPT !.cache = UseCache(dd) /\ ~o.restart]
       /\ dd' = IF UseCache(dd) /\ o.restart THEN DdTouch(dd) ELSE dd
       /\ UNCHANGED obs
  /\ pc' = "loop"
  /\ UNCHANGED <<tgt, tsVars, pmVars, xVars>>

\* The end of one iteration of the extraction loop, compile.cxx:990
\* (for (bool restart (true); restart; cache = false)): r is the value of
\* restart and n the value of skip_count the iteration ends with.
EndBody(j, r, n) == [j EXCEPT !.cache = FALSE, !.restart = r, !.skip_count = n]
NoteRestart(o, r, n) == IF r THEN [o EXCEPT !.rs = Append(o.rs, n)] ELSE o

\* The loop condition holds: the next iteration starts, on the cache or with
\* the compiler.
LoopIter ==
  /\ pc = "loop"
  /\ inj.restart
  /\ inj' = [inj EXCEPT !.restart = FALSE]
  /\ pc' = IF inj.cache THEN "cached" ELSE "launch"
  /\ UNCHANGED <<dd, env, tgt, hst, obs, tsVars, pmVars, xVars>>

\* The loop condition fails: inject_prerequisites returns.
LoopExit ==
  /\ pc = "loop"
  /\ ~inj.restart
  /\ pc' = "close"
  /\ UNCHANGED <<dd, env, tgt, hst, inj, obs, tsVars, pmVars, xVars>>

\* compile.cxx:1000-1023: one turn of while (dd.more ()) on the cached pass.
CacheRead ==
  /\ pc = "cached"
  /\ IF ~DdMore(dd)
       THEN /\ inj' = EndBody(inj, FALSE, inj.skip_count)
            /\ pc' = "loop"
            /\ UNCHANGED <<dd, env, tgt, hst, obs>>
       ELSE LET r == DdRead(dd)
            IN IF r.line = NoLine
                 THEN /\ dd' = r.d
                      /\ inj' = EndBody(inj, TRUE, inj.skip_count)
                      /\ obs' = NoteRestart(obs, TRUE, inj.skip_count)
                      /\ pc' = "loop"
                      /\ UNCHANGED <<env, tgt, hst>>
                 ELSE \E o \in UpdateOutcomes(r.line.n, dd.mtime) :
                        LET h == r.line.n
                            n == NextSkipCount(inj.skip_count)
                            d == AddToDb(r.d, h, TRUE)
                        IN /\ hst' = [hst EXCEPT ![h] = o.ns]
                           /\ env' = [env EXCEPT !.hm[h] = o.mt]
                           /\ tgt' = [tgt EXCEPT !.prereqs = Append(tgt.prereqs, h)]
                           /\ dd' = IF o.restart THEN DdTouch(d) ELSE d
                           /\ inj' = IF o.restart THEN EndBody(inj, TRUE, n)
                                     ELSE [inj EXCEPT !.skip_count = n]
                           /\ obs' = [NoteRestart(obs, o.restart, n) EXCEPT
                                        !.cachedAdds = obs.cachedAdds + 1,
                                        !.last = [cache |-> TRUE, h |-> h, os |-> o.os,
                                                  ns |-> o.ns, ts |-> dd.mtime, mt |-> o.mt,
                                                  restart |-> o.restart]]
                           /\ pc' = IF o.restart THEN "loop" ELSE "cached"
  /\ UNCHANGED <<tsVars, pmVars, xVars>>

\* The headers the run has a name for: those recorded in the initial database
\* and those already matched.  The other headers are interchangeable, and the
\* compiler reports the one with the least number first.
KnownHeaders ==
  {h \in Headers : hst[h] # "unmatched" \/ \E i \in 1..Len(obs.db0) : obs.db0[i] = HdrLine(h)}

\* compile.cxx:1028-1050: the compiler is started in header-extraction mode
\* (size_t skip (skip_count)).
Launch ==
  /\ pc = "launch"
  /\ inj' = [inj EXCEPT !.opos = 0, !.skip = inj.skip_count]
  /\ obs' = [obs EXCEPT !.launches = obs.launches + 1]
  /\ pc' = "cc"
  /\ UNCHANGED <<dd, env, tgt, hst, tsVars, pmVars, xVars>>

\* compile.cxx:1163-1183 (and 1101-1121): the compiler reports header h, its
\* next one, which is skipped or added.
CcLine(h) ==
  /\ pc = "cc"
  /\ ~inj.restart
  /\ inj.opos < MaxOut
  /\ IF inj.skip # 0
       THEN /\ h = 1
            /\ inj' = [inj EXCEPT !.skip = inj.skip - 1, !.opos = inj.opos + 1]
            /\ UNCHANGED <<dd, env, tgt, hst, obs>>
       ELSE /\ h \in KnownHeaders \/ \A x \in Headers \ KnownHeaders : h <= x
            /\ \E o \in UpdateOutcomes(h, Unknown) :
                 /\ hst' = [hst EXCEPT ![h] = o.ns]
                 /\ env' = [env EXCEPT !.hm[h] = o.mt]
                 /\ tgt' = [tgt EXCEPT !.prereqs = Append(tgt.prereqs, h)]
                 /\ dd' = AddToDb(dd, h, FALSE)
                 /\ inj' = [inj EXCEPT !.opos = inj.opos + 1, !.restart = o.restart,
                                       !.skip_count = NextSkipCount(inj.skip_count)]
                 /\ UNCHANGED obs
  /\ pc' = "cc"
  /\ UNCHANGED <<tsVars, pmVars, xVars>>

\* add () fails on the next reported header: it cannot be mapped to a project
\* (compile.cxx:859) or no rule matches it.
CcAddFail ==
  /\ pc = "cc"
  /\ ~inj.restart
  /\ inj.opos < MaxOut
  /\ inj.skip = 0
  /\ pc' = "failed"
  /\ UNCHANGED <<dd, env, tgt, hst, inj, obs, tsVars, pmVars, xVars>>

\* compile.cxx:1186-1213: the output is at its end or a restart was
\* requested; the compiler's exit status is checked.
CcEnd ==
  /\ pc = "cc"
  /\ \E ok \in BOOLEAN :
       IF ok
         THEN /\ inj' = EndBody(inj, inj.restart, inj.skip_count)
              /\ obs' = NoteRestart(obs, inj.restart, inj.skip_count)
              /\ pc' = "loop"
         ELSE /\ pc' = "failed"
              /\ UNCHANGED <<inj, obs>>
  /\ UNCHANGED <<dd, env, tgt, hst, tsVars, pmVars, xVars>>

\* compile::apply, compile.cxx:267: dd.close ().
CloseDb ==
  /\ pc = "close"
  /\ dd' = DdClose(dd)
  /\ pc' = "applied"
  /\ UNCHANGED <<env, tgt, hst, inj, obs, tsVars, pmVars, xVars>>

\* execute_prerequisites<cxx> (a, t, mt): whether some prerequisite is newer
\* than mt, or as old and changed by this run; hm gives the mtimes.
NeedsUpdate(mt, prereqs, st, hm) ==
  \/ mt = Nonexistent
  \/ \E i \in 1..Len(prereqs) :
       \/ mt < hm[prereqs[i]]
       \/ mt = hm[prereqs[i]] /\ st[prereqs[i]] = "changed"

\* compile::perform_update, compile.cxx:1235-1242 and the compilation proper.
PerformUpdate ==
  /\ pc = "applied"
  /\ \E m \in [{f \in {Source} \cup Headers : env.hm[f] = Unknown} -> Times] :
       LET hm == [f \in {Source} \cup Headers |->
                    IF env.hm[f] = Unknown THEN m[f] ELSE env.hm[f]]
       IN IF NeedsUpdate(tgt.mtime, tgt.prereqs, hst, hm)
            THEN /\ tgt' = [tgt EXCEPT !.state = "changed", !.mtime = Now]
                 /\ obs' = [obs EXCEPT !.compiles = obs.compiles + 1]
            ELSE /\ tgt' = [tgt EXCEPT !.state = "unchanged"]
                 /\ UNCHANGED obs
  /\ pc' = "done"
  /\ UNCHANGED <<dd, env, hst, inj, tsVars, pmVars, xVars>>

NextApply ==
  \/ ExpectFp
  \/ ForceCheck
  \/ UpdateSource
  \/ LoopIter
  \/ LoopExit
  \/ CacheRead
  \/ Launch
  \/ \E h \in Headers : CcLine(h)
  \/ CcAddFail
  \/ CcEnd
  \/ CloseDb
  \/ PerformUpdate

SpecApply == InitApply /\ [][NextApply]_vars

ApTypeOK ==
  /\ pc \in {"expect", "force", "src", "loop", "cached", "launch", "cc", "close",
              "applied", "done", "failed"}
  /\ inj.skip_count \in Nat
  /\ dd.pos <= Len(dd.lines)

(***************************************************************************)
(*                 Properties of the compile machine                       *)
(***************************************************************************)

\* The headers this inject_prerequisites call appended to prerequisite_targets
\* (the source was appended by apply before).
Injected == SubSeq(tgt.prereqs, 2, Len(tgt.prereqs))

\* The lines a database holds for the current fingerprint and headers hs.
DbFor(hs) == [i \in 1..Len(Fingerprint) |-> FpLine(i)] \o [i \in 1..Len(hs) |-> HdrLine(hs[i])]

IsPrefix(p, q) == Len(p) <= Len(q) /\ SubSeq(q, 1, Len(p)) = p

\* The headers recorded in the initial database.
Recorded == {obs.db0[i].n : i \in {j \in 1..Len(obs.db0) : obs.db0[j].k = "hdr"}}

\* The initial database is the well-formed result of a build with the
\* current fingerprint, and the target is not older than it.
BuiltBefore ==
  /\ Len(obs.db0) >= Len(Fingerprint)
  /\ \A i \in 1..Len(Fingerprint) : obs.db0[i] = FpLine(i)
  /\ \A i \in 1..Len(obs.db0) : obs.db0[i] # BadLine
  /\ tgt.mtime0 # Nonexistent
  /\ tgt.mtime0 >= obs.dm0

\* No update of the source or of a header changed anything in this run.
NothingChanged == \A f \in {Source} \cup Headers : hst[f] # "changed"

\* What C2 promises of the second run.
NoWorkDone ==
  /\ obs.launches = 0
  /\ obs.rs = <<>>
  /\ pc # "failed"
  /\ pc = "done" =>
       /\ obs.compiles = 0
       /\ dd.lines = obs.db0
       /\ dd.mtime = obs.dm0
       /\ tgt.state = "unchanged"

\* C2 (as claimed): when the database is that of an earlier build with the
\* same fingerprint and neither the source nor a recorded header has an mtime
\* after the database's, the run launches no compiler, requests no restart,
\* leaves the database alone and ends with the target unchanged.
C2_AsClaimed ==
  (/\ BuiltBefore
   /\ NothingChanged
   /\ \A f \in {Source} \cup Recorded : env.hm[f] <= obs.dm0)
  => NoWorkDone

\* C2 (amended): the same, for a source and recorded headers whose mtimes are
\* strictly older than the database's mtime.
C2_NoopRebuild ==
  (/\ BuiltBefore
   /\ NothingChanged
   /\ \A f \in {Source} \cup Recorded : env.hm[f] < obs.dm0)
  => NoWorkDone

\* A finished second run over a database with two cached headers, all inputs
\* strictly older than the database.
C2_Witness ==
  /\ pc = "done"
  /\ BuiltBefore
  /\ NothingChanged
  /\ Cardinality(Recorded) >= 2
  /\ \A f \in {Source} \cup Recorded : env.hm[f] # Unknown /\ env.hm[f] < obs.dm0
  /\ tgt.state = "unchanged"

\* C3: skip_count is the number of headers this call appended to
\* prerequisite_targets, and it never decreases.
C3_SkipCount ==
  /\ [](pc # "idle" => inj.skip_count = Len(Injected))
  /\ [][inj.skip_count' >= inj.skip_count]_vars

\* A header added from the cache and another added from the compiler's output.
C3_Witness ==
  /\ obs.cachedAdds = 1
  /\ obs.launches >= 1
  /\ inj.skip_count = 2
  /\ Len(Injected) = 2

\* C4 (as claimed): a cached header restarts the extraction, and touches the
\* database, exactly when its update reported changed and it is newer than
\* the database.
C4_AsClaimed ==
  obs.last.cache =>
    /\ obs.last.restart <=> (obs.last.ns = "changed" /\ obs.last.mt > obs.last.ts)
    /\ dd.touch <=> obs.last.restart

\* C4 (amended): a cached header restarts the extraction, and touches the
\* database, exactly when its execute_direct changed it, or it is newer than
\* the database, or it is as old as the database and not in state changed.
C4_CachedRestart ==
  obs.last.cache =>
    /\ obs.last.restart <=>
         \/ obs.last.os = "unknown" /\ obs.last.ns = "changed"
         \/ obs.last.mt > obs.last.ts
         \/ obs.last.mt = obs.last.ts /\ obs.last.ns # "changed"
    /\ dd.touch <=> obs.last.restart

\* A cached header that no recipe changed but that is newer than the database
\* restarts the extraction.
C4_Witness ==
  /\ obs.last.cache
  /\ obs.last.ns = "unchanged"
  /\ obs.last.mt > obs.last.ts
  /\ obs.last.restart
  /\ dd.touch

\* C5: after a mismatch on one of the four self-describing lines no cached
\* line is used, the cached pass is never taken, and the loop has run the
\* compiler by the time it is left.
C5_MismatchRunsCompiler ==
  obs.mism =>
    /\ pc # "cached"
    /\ obs.cachedAdds = 0
    /\ inj.cache = FALSE
    /\ pc \in {"cc", "close", "applied", "done"} => obs.launches >= 1

\* A run over a database with cached header lines and a stale self-describing
\* line, finished.
C5_Witness ==
  /\ obs.mism
  /\ pc = "done"
  /\ Len(obs.db0) > Len(Fingerprint)
  /\ obs.launches >= 1

\* C6: after a mismatch on a self-describing line the target's mtime is
\* timestamp_nonexistent when header injection starts.
C6_MismatchForcesUpdate ==
  (obs.mism /\ pc = "src") => tgt.mtime = Nonexistent

\* A mismatch for an existing target that is not older than the database.
C6_Witness ==
  /\ obs.mism
  /\ pc = "src"
  /\ tgt.mtime0 # Nonexistent
  /\ tgt.mtime0 >= obs.dm0
  /\ tgt.mtime = Nonexistent

\* C7: a database newer than the target makes apply reset the target's mtime
\* to timestamp_nonexistent.
C7_InterruptedUpdate ==
  (pc = "src" /\ obs.dm0 > tgt.mtime0) => tgt.mtime = Nonexistent

\* An existing target older than a database whose four lines all matched.
C7_Witness ==
  /\ pc = "src"
  /\ ~obs.mism
  /\ tgt.mtime0 # Nonexistent
  /\ obs.dm0 > tgt.mtime0
  /\ tgt.mtime = Nonexistent

C9_RestartsIncrease ==
  \A i \in 1..(Len(obs.rs) - 1) : obs.rs[i] < obs.rs[i + 1]

\* Two restarts in one run.
C9_Witness ==
  /\ Len(obs.rs) >= 2
  /\ obs.rs[1] < obs.rs[2]

\* The first n lines of the database are the rule id and version, the
\* compiler checksum, the options checksum and the source path, in this order.
ExpectedSoFar(n) ==
  /\ Len(dd.lines) >= n
  /\ n >= 1 => dd.lines[1] = [k |-> "rule", n |-> 0]
  /\ n >= 2 => dd.lines[2] = [k |-> "compiler", n |-> 0]
  /\ n >= 3 => dd.lines[3] = [k |-> "options", n |-> 0]
  /\ n >= 4 => dd.lines[4] = [k |-> "source", n |-> 0]

\* A header line was read from the database or written to it, or the compiler
\* that produces the lines to write was started.
HeaderLineUsed ==
  \/ obs.cachedAdds > 0
  \/ Len(Injected) > 0
  \/ obs.launches > 0
  \/ dd.pos > Len(Fingerprint)

\* C12: apply expects the rule line, the compiler checksum, the options
\* checksum and the source path in this order, one after the other from the
\* start of the database, and all four before any header line is read from
\* or written to the database.
C12_ExpectOrder ==
  /\ pc = "expect" =>
       /\ dd.pos = inj.fp - 1
       /\ ExpectedSoFar(inj.fp - 1)
       /\ ~HeaderLineUsed
  /\ pc \in {"force", "src", "loop", "cached", "launch", "cc", "close", "applied", "done",
              "failed"} =>
       /\ inj.fp = 5
       /\ ExpectedSoFar(4)
       /\ dd.pos >= 4

\* A finished run in which a stale options checksum was replaced and a header
\* line was then written after the four lines.
C12_Witness ==
  /\ pc = "done"
  /\ obs.mism
  /\ obs.db0 # <<>>
  /\ obs.db0[3] = [k |-> "options", n |-> 1]
  /\ ExpectedSoFar(4)
  /\ Len(dd.lines) > 4
  /\ dd.lines[5].k = "hdr"

(***************************************************************************)
(*      PREFIX MAP for auto-generated headers (build2/cxx/compile.cxx)     *)
(***************************************************************************)

\* Bounds of the prefix machine: directory names, path depth, map entries.
NumComps == 2
MaxDepth == 2
MaxPrefixes == 3

\* A directory path is the sequence of its components; the empty sequence is
\* the empty path as a prefix and the project's out_root as a directory.
Dirs == UNION {[1..k -> 1..NumComps] : k \in 0..MaxDepth}

\* d.sub (k): d is k or a sub-directory of k.
IsSub(d, k) == Len(k) <= Len(d) /\ SubSeq(d, 1, Len(k)) = k

\* d.leaf (k) for a d that is a sub-directory of k.
Leaf(d, k) == SubSeq(d, Len(k) + 1, Len(d))

\* The order of the keys of a dir_path_map: lexicographic by component, a
\* path before its sub-directories.
RECURSIVE PathLess(_, _)
PathLess(a, b) ==
  IF b = <<>> THEN FALSE
  ELSE IF a = <<>> THEN TRUE
  ELSE IF a[1] # b[1] THEN a[1] < b[1]
  ELSE PathLess(Tail(a), Tail(b))

PmKeys(m) == {e.key : e \in m}
PmAt(m, k) == CHOOSE e \in m : e.key = k

\* append_prefixes, compile.cxx:373-397: the prefix of include directory d
\* for a target in out_base.
PrefixOf(out_base, d) == IF IsSub(out_base, d) THEN Leaf(out_base, d) ELSE <<>>

\* append_prefixes, compile.cxx:378-397: m.find (p), then override or emplace.
AppendPrefixTo(m, prefix, d) ==
  IF prefix \in PmKeys(m)
    THEN {IF e.key = prefix THEN [key |-> prefix, base |-> d] ELSE e : e \in m}
    ELSE m \cup {[key |-> prefix, base |-> d]}

\* The add lambda, compile.cxx:844-856: pm.upper_bound (d), one step back,
\* then the sub-path test.  The result is the key found, or "none" for
\* pm.end ().
PrefixFind(m, d) ==
  LET le == {k \in PmKeys(m) : ~PathLess(d, k)}
  IN IF le = {} THEN [found |-> FALSE, key |-> <<>>]
     ELSE LET g == CHOOSE k \in le : \A j \in le : j = k \/ PathLess(j, k)
          IN IF IsSub(d, g) THEN [found |-> TRUE, key |-> g]
             ELSE [found |-> FALSE, key |-> <<>>]

PmInit ==
  /\ pm = {}
  /\ pmq = [dir |-> <<>>, leaf |-> 0]
  /\ pmres = [done |-> FALSE, ok |-> FALSE, key |-> <<>>, path |-> <<>>]

InitPrefix == PmInit /\ TsIdle /\ ApIdle /\ ShIdle /\ PtIdle /\ RcIdle /\ ScIdle /\ YIdle /\ WIdle

\* build_prefix_map: one -I option d, inside the project, of a target whose
\* directory is out_base.
AppendPrefix(out_base, d) ==
  /\ ~pmres.done
  /\ LET m == AppendPrefixTo(pm, PrefixOf(out_base, d), d)
     IN /\ Cardinality(m) <= MaxPrefixes
        /\ pm' = m
  /\ UNCHANGED <<pmq, pmres, tsVars, apVars, xVars>>

\* add (f, cache) for a relative header f = dir/leaf: the header is mapped to
\* base/f or the rule fails with 'unable to map presumably auto-generated
\* header'.
MapHeader(dir, leaf) ==
  /\ ~pmres.done
  /\ pmq' = [dir |-> dir, leaf |-> leaf]
  /\ LET r == PrefixFind(pm, dir)
     IN pmres' = IF r.found
                   THEN [done |-> TRUE, ok |-> TRUE, key |-> r.key,
                         path |-> PmAt(pm, r.key).base \o dir \o <<leaf>>]
                   ELSE [done |-> TRUE, ok |-> FALSE, key |-> <<>>, path |-> <<>>]
  /\ UNCHANGED <<pm, tsVars, apVars, xVars>>

NextPrefix ==
  \/ \E out_base \in Dirs, d \in Dirs : AppendPrefix(out_base, d)
  \/ \E dir \in Dirs, leaf \in 1..NumComps : MapHeader(dir, leaf)

SpecPrefix == InitPrefix /\ [][NextPrefix]_vars

\* The keys of the prefix map that are the header's directory or an ancestor
\* of it.
Ancestors == {k \in PmKeys(pm) : IsSub(pmq.dir, k)}

\* C10: a relative header is mapped through the most qualified key that is an
\* ancestor of its directory, to base/header, and the mapping fails exactly
\* when no key of the prefix map is such an ancestor.
C10_MostQualifiedPrefix ==
  pmres.done =>
    /\ pmres.ok <=> Ancestors # {}
    /\ pmres.ok =>
         /\ pmres.key \in Ancestors
         /\ \A k \in Ancestors : Len(k) <= Len(pmres.key)
         /\ pmres.path = PmAt(pm, pmres.key).base \o pmq.dir \o <<pmq.leaf>>

(***************************************************************************)
(*   VC++ /showIncludes output  (build2/cxx/compile.cxx, next_show and     *)
(*   the msvc branch of inject_prerequisites)                              *)
(***************************************************************************)

\* Bounds of the /showIncludes machine: the segments one line is made of, the
\* headers skipped after a restart and the lines read after the first one.
MaxSegs == 4
MaxSkip == 1
MaxShowLines == 2

\* A line is a sequence of characters; positions count from 0 and Npos is
\* string::npos.
Npos == -1
At(l, p) == l[p + 1]

ErrC1083 == <<" ", "C", "1", "0", "8", "3", ":">>
ErrOther == <<" ", "C", "2", "0", "6", "5", ":">>
ShowSegs == {ErrC1083, ErrOther, <<"'">>, <<"x">>, <<":">>}

RECURSIVE Concat(_)
Concat(ss) == IF ss = <<>> THEN <<>> ELSE Head(ss) \o Concat(Tail(ss))

\* The lines the compiler may print.
ShowLines == {Concat(ss) : ss \in UNION {[1..k -> ShowSegs] : k \in 0..MaxSegs}}
\* An include note for header x.
NoteLine == <<"x", ":", " ", "x">>

IsNum(c) == c \in {"0", "1", "2", "3", "4", "5", "6", "7", "8", "9"}
IsAlpha(c) == c \in {"C", "x"}
IsSeparator(c) == c \in {"/", "\\"}

\* l.rfind (c, p) and l.find_first_not_of (c, p).
StrRFind(l, c, p) ==
  LET S == {q \in 0..(Len(l) - 1) : q <= p /\ At(l, q) = c}
  IN IF S = {} THEN Npos ELSE CHOOSE q \in S : \A r \in S : r <= q
StrFindFirstNotOf(l, c, p) ==
  LET S == {q \in p..(Len(l) - 1) : At(l, q) # c}
  IN IF S = {} THEN Npos ELSE CHOOSE q \in S : \A r \in S : q <= r

\* next_show, compile.cxx:562-568: the ':' at p ends ' CNNNN'.
ErrCodeAt(l, p) ==
  /\ p > 5
  /\ At(l, p - 6) = " "
  /\ At(l, p - 5) = "C"
  /\ IsNum(At(l, p - 4))
  /\ IsNum(At(l, p - 3))
  /\ IsNum(At(l, p - 2))
  /\ IsNum(At(l, p - 1))

\* next_show, compile.cxx:555-573: the start of the error code of the first
\* ':' that ends ' CNNNN', or npos.
ErrPos(l) ==
  LET S == {p \in 0..(Len(l) - 1) : At(l, p) = ":" /\ ErrCodeAt(l, p)}
  IN IF S = {} THEN Npos ELSE (CHOOSE p \in S : \A r \in S : p <= r) - 4

\* next_show, compile.cxx:580-602: the start of the path of an include note.
NotePos(l) ==
  LET p == StrRFind(l, ":", Len(l))
      q == IF /\ p # Npos
              /\ p > 1 /\ p + 1 < Len(l)
              /\ At(l, p - 2) = " "
              /\ IsAlpha(At(l, p - 1))
              /\ IsSeparator(At(l, p + 1))
            THEN StrRFind(l, ":", p - 2) ELSE p
  IN IF q # Npos THEN StrFindFirstNotOf(l, " ", q + 1) ELSE Npos

ShowFail == [kind |-> "fail", f |-> <<>>, good_error |-> FALSE]

\* next_show (l, good_error): the path returned (kind "path", possibly the
\* empty string), the empty string for another error, or a failure; and the
\* value good_error is left with.
next_show(l) ==
  LET p == ErrPos(l)
  IN IF p = Npos
       THEN LET q == NotePos(l)
            IN IF q = Npos THEN ShowFail
               ELSE [kind |-> "path", f |-> SubSeq(l, q + 1, Len(l)), good_error |-> FALSE]
     ELSE IF SubSeq(l, p + 1, p + 4) = <<"1", "0", "8", "3">>
       THEN LET p2 == StrRFind(l, "'", Len(l))
                p1 == IF p2 # Npos /\ p2 # 0 THEN StrRFind(l, "'", p2 - 1) ELSE Npos
            IN IF p1 # Npos
                 THEN [kind |-> "path", f |-> SubSeq(l, p1 + 2, p2), good_error |-> TRUE]
                 ELSE ShowFail
     ELSE [kind |-> "empty", f |-> <<>>, good_error |-> FALSE]

\* inject_prerequisites, compile.cxx:1209-1212: the compiler's exit status
\* fails the rule.
WaitThrowsAlways(ok, good_error) == ~ok
WaitThrows(ok, good_error) == ~ok /\ ~good_error

\* What add () can do with a header: request a restart (the header was
\* generated or updated), not request one, or fail (no rule, update failed).
AddResults == {"restart", "norestart", "fail"}

ShInit ==
  \E l \in ShowLines, k \in 0..MaxSkip :
    sh = [pc |-> "first", L |-> l, line |-> <<>>, f |-> <<>>, kind |-> "none",
          good_error |-> FALSE, bad_error |-> FALSE, restart |-> FALSE,
          skip |-> k, nread |-> 0, addLine |-> <<>>, addF |-> <<>>, adds |-> 0,
          exit |-> "none"]

InitShow == ShInit /\ TsIdle /\ ApIdle /\ PmIdle /\ PtIdle /\ RcIdle /\ ScIdle /\ YIdle /\ WIdle

\* compile.cxx:1073-1090: the first line is the name of the source file, or
\* diagnostics.
ShowFirst(isSource) ==
  /\ sh.pc = "first"
  /\ sh' = IF isSource THEN [sh EXCEPT !.pc = "read"]
           ELSE [sh EXCEPT !.bad_error = TRUE, !.pc = "wait"]
  /\ UNCHANGED <<tsVars, apVars, pmVars, pt, rc, sc, yVars, wVars>>

\* compile.cxx:1054-1062: the end of the compiler's output.
ShowEof ==
  /\ sh.pc = "read"
  /\ sh' = [sh EXCEPT !.pc = "wait"]
  /\ UNCHANGED <<tsVars, apVars, pmVars, pt, rc, sc, yVars, wVars>>

\* compile.cxx:1092-1121: one more line l of the output.
ShowLine(l) ==
  /\ sh.pc = "read"
  /\ sh.nread < MaxShowLines
  /\ LET r == next_show(l)
         s1 == [sh EXCEPT !.line = l, !.nread = sh.nread + 1, !.f = r.f,
                          !.kind = r.kind, !.good_error = r.good_error]
     IN IF sh.good_error
          THEN sh' = [sh EXCEPT !.line = l, !.nread = sh.nread + 1, !.pc = "abort"]
        ELSE IF r.kind = "fail"
          THEN sh' = [s1 EXCEPT !.pc = "failed"]
        ELSE IF r.f = <<>>
          THEN sh' = [s1 EXCEPT !.bad_error = TRUE, !.pc = "wait"]
        ELSE IF sh.skip # 0
          THEN sh' = IF r.good_error THEN [s1 EXCEPT !.pc = "abort"]
                     ELSE [s1 EXCEPT !.skip = sh.skip - 1]
        ELSE \E a \in AddResults :
               LET s2 == [s1 EXCEPT !.addLine = l, !.addF = r.f, !.adds = sh.adds + 1]
               IN sh' = IF a = "fail" THEN [s2 EXCEPT !.pc = "failed"]
                        ELSE IF r.good_error /\ a # "restart" THEN [s2 EXCEPT !.pc = "abort"]
                        ELSE IF a = "restart" THEN [s2 EXCEPT !.restart = TRUE, !.pc = "wait"]
                        ELSE s2
  /\ UNCHANGED <<tsVars, apVars, pmVars, pt, rc, sc, yVars, wVars>>

\* compile.cxx:1205-1215: pr.wait () and the check of the exit status.
ShowWait(ok) ==
  /\ sh.pc = "wait"
  /\ sh' = [sh EXCEPT !.exit = IF ok THEN "zero" ELSE "nonzero",
                      !.pc = IF WaitThrows(ok, sh.good_error) THEN "failed"
                             ELSE IF ok /\ sh.bad_error THEN "failed"
                             ELSE "done"]
  /\ UNCHANGED <<tsVars, apVars, pmVars, pt, rc, sc, yVars, wVars>>

NextShow ==
  \/ \E isSource \in BOOLEAN : ShowFirst(isSource)
  \/ ShowEof
  \/ \E l \in {NoteLine, sh.L} : ShowLine(l)
  \/ \E ok \in BOOLEAN : ShowWait(ok)

SpecShow == InitShow /\ [][NextShow]_vars

\* The places at which ' CNNNN:' occurs in line l (1-based), the code there,
\* and whether the line holds ' C1083:'.
CodePlaces(l) ==
  {i \in 1..(Len(l) - 6) :
     /\ l[i] = " " /\ l[i + 1] = "C" /\ l[i + 6] = ":"
     /\ \A j \in 2..5 : IsNum(l[i + j])}
CodeOf(l, i) == SubSeq(l, i + 2, i + 5)
HasC1083(l) == \E i \in CodePlaces(l) : CodeOf(l, i) = <<"1", "0", "8", "3">>
FirstIsC1083(l) ==
  \E i \in CodePlaces(l) :
    /\ CodeOf(l, i) = <<"1", "0", "8", "3">>
    /\ \A j \in CodePlaces(l) : i <= j

\* The single quotes of line l and the text between the last two of them.
Quotes(l) == {i \in 1..Len(l) : l[i] = "'"}
LastQuoted(l) ==
  LET q2 == CHOOSE i \in Quotes(l) : \A j \in Quotes(l) : j <= i
      q1 == CHOOSE i \in Quotes(l) \ {q2} : \A j \in Quotes(l) \ {q2} : j <= i
  IN SubSeq(l, q1 + 1, q2 - 1)

\* The last line was read and parsed by this run.
LineParsed == sh.pc # "idle" /\ sh.line # <<>> /\ sh.kind # "none"

\* The parts of C11 about the exit status and about other diagnostics: a
\* non-zero exit without good_error fails the rule, and a line with some
\* ' CNNNN:' but no ' C1083:' is never passed to add ().
ExitAndOtherErrors ==
  /\ (sh.exit = "nonzero" /\ ~sh.good_error) => sh.pc = "failed"
  /\ (LineParsed /\ CodePlaces(sh.line) # {} /\ ~HasC1083(sh.line)) =>
       /\ sh.addLine # sh.line
       /\ ~sh.good_error
       /\ sh.pc \in {"wait", "failed"}

\* C11 (as claimed): every line holding ' C1083:' yields the text between its
\* last two single quotes and sets good_error; with good_error a non-zero
\* exit is tolerated and the run ends in a restart; and the exit status and
\* other diagnostics are treated as above.
C11_AsClaimed ==
  /\ sh.pc # "idle"
  /\ (LineParsed /\ HasC1083(sh.line)) =>
       /\ sh.good_error
       /\ Cardinality(Quotes(sh.line)) >= 2
       /\ sh.f = LastQuoted(sh.line)
  /\ (sh.good_error /\ sh.pc = "done") => sh.restart
  /\ ExitAndOtherErrors

\* C11 (amended): a line whose first ' CNNNN:' is ' C1083:' and that holds two
\* single quotes yields the text between the last two of them and sets
\* good_error; when that text is not empty, a non-zero exit is tolerated and
\* the run ends in a restart; and the exit status and other diagnostics are
\* treated as above.
C11_ShowIncludesError ==
  /\ sh.pc # "idle"
  /\ (LineParsed /\ FirstIsC1083(sh.line) /\ Cardinality(Quotes(sh.line)) >= 2) =>
       /\ sh.good_error
       /\ sh.f = LastQuoted(sh.line)
  /\ (sh.good_error /\ sh.f # <<>> /\ sh.pc = "done") => sh.restart
  /\ (sh.good_error /\ sh.exit = "nonzero" /\ sh.f # <<>>) => sh.pc = "done"
  /\ ExitAndOtherErrors

\* A C1083 line naming header x, after which add () asked for a restart and
\* the compiler's non-zero exit was tolerated.
C11_Witness ==
  /\ sh.pc = "done"
  /\ sh.line = ErrC1083 \o <<"'", "x", "'">>
  /\ sh.good_error
  /\ sh.addF = <<"x">>
  /\ sh.restart
  /\ sh.exit = "nonzero"

(***************************************************************************)
(*          path_target::derive_path  (build2/target.cxx)                  *)
(***************************************************************************)

\* Paths and names are sequences of characters; NullStr is a nullptr
\* const char* argument.
NullStr == <<"nullptr">>

\* The string of a non-null extension: the empty string for EmptyExt, and one
\* more character for each further pooled extension.
ExtStr(e) == [i \in 1..(e - 1) |-> "a"]

\* The names of the targets and the name prefixes and suffixes of the callers.
PtNames == {<<"a">>, <<"a", ".", "a">>}
PtPrefixes == {NullStr, <<"a">>}
PtSuffixes == {NullStr, <<".", "a">>}

\* path / name and path += s.
PathCombine(d, n) == IF d = <<>> THEN n ELSE d \o <<"/">> \o n
PathAppend(q, x) == q \o x

\* derive_path (de, np, ns), target.cxx:366-377: the path before the extension.
BasePath(dir, name, np, ns) ==
  LET q == IF np = NullStr THEN PathCombine(dir, name)
           ELSE PathAppend(PathCombine(dir, np), name)
  IN IF ns # NullStr THEN PathAppend(q, ns) ELSE q

\* derive_path (p, de), target.cxx:389-393: the extension is added if any.
WithExt(q, e) == IF ExtStr(e) # <<>> THEN PathAppend(PathAppend(q, <<".">>), ExtStr(e)) ELSE q

\* derive_path (p, de), target.cxx:395-402: the path the target is left with,
\* and whether the call fails with 'path mismatch'.
PathAfterAlways(ep, q) == q
PathAfter(ep, q) == IF ep = <<>> THEN q ELSE ep
PathMismatch(ep, q) == ep # <<>> /\ q # ep

PtInit ==
  \E n \in PtNames, e \in Exts :
    pt = [dir |-> <<"d">>, name |-> n, ext |-> e, path |-> <<>>,
          last |-> [op |-> "none", p |-> <<>>, before |-> <<>>, result |-> "none"]]

InitPath == PtInit /\ TsIdle /\ ApIdle /\ PmIdle /\ ShIdle /\ RcIdle /\ ScIdle /\ YIdle /\ WIdle

\* derive_path (p, de) for a path p the caller made: derive_extension (de)
\* first (it may fail), then the path is set or compared.
DerivePathOf(q, hasFn, fe, de) ==
  /\ de = NullExt \/ hasFn
  /\ ~hasFn => fe = NullExt
  /\ LET e == DeriveExt(pt.ext, fe, de)
         p == WithExt(q, e)
     IN pt' = IF e = NullExt
                THEN [pt EXCEPT !.last = [op |-> "derive_path", p |-> q, before |-> pt.path,
                                          result |-> "no default extension"]]
                ELSE [pt EXCEPT !.ext = e,
                                !.path = PathAfter(pt.path, p),
                                !.last = [op |-> "derive_path", p |-> p, before |-> pt.path,
                                          result |-> IF PathMismatch(pt.path, p)
                                                       THEN "path mismatch" ELSE "ok"]]
  /\ UNCHANGED <<tsVars, apVars, pmVars, sh, rc, sc, yVars, wVars>>

\* derive_path (de, np, ns): the path is made of the target's dir and name.
DerivePath(np, ns, hasFn, fe, de) ==
  DerivePathOf(BasePath(pt.dir, pt.name, np, ns), hasFn, fe, de)

NextPath ==
  \/ \E np \in PtPrefixes, ns \in PtSuffixes, hasFn \in BOOLEAN, fe \in Exts, de \in Exts :
       DerivePath(np, ns, hasFn, fe, de)
  \/ \E q \in {<<>>, <<"d", "/", "a">>}, hasFn \in BOOLEAN, fe \in Exts, de \in Exts :
       DerivePathOf(q, hasFn, fe, de)

SpecPath == InitPath /\ [][NextPath]_vars

\* C16: derive_path assigns the path only while it is empty; with a path
\* already set, deriving the same path changes nothing and succeeds, deriving
\* another one fails with 'path mismatch' and leaves the path alone; a
\* non-empty path never changes.
C16_DerivePathOnce ==
  /\ [](pt.last.op = "derive_path" =>
          /\ pt.last.before # <<>> => pt.path = pt.last.before
          /\ (pt.last.before = <<>> /\ pt.last.result # "no default extension") =>
               (pt.path = pt.last.p /\ pt.last.result = "ok")
          /\ (pt.last.before # <<>> /\ pt.last.result # "no default extension") =>
               (pt.last.result = "path mismatch" <=> pt.last.p # pt.last.before))
  /\ [][pt.path # <<>> => pt'.path = pt.path]_vars

\* A derive_path that derived another path than the one the target has.
C16_Witness ==
  /\ pt.last.op = "derive_path"
  /\ pt.last.result = "path mismatch"
  /\ pt.last.before # <<>>
  /\ pt.path = pt.last.before
  /\ pt.last.p # pt.path

(***************************************************************************)
(*      target::recipe and the target's raw_state  (build2/target.cxx)     *)
(***************************************************************************)

\* Bounds of the recipe machine: the operations and the dependents counted.
NumOps == 2
MaxDependents == 1

\* An action is an inner operation and, possibly, an outer one (0: none).  The
\* target starts with no action.
Actions == [inner : 1..NumOps, outer : 0..NumOps]
NoAction == [inner |-> 0, outer |-> 0]

\* a == b ignores the outer operation; a > b: a overrides b, which is so for
\* the same inner operation when b has an outer operation and a has none.
ActionEq(a, b) == a.inner = b.inner
ActionGt(a, b) == a.inner = b.inner /\ a.outer = 0 /\ b.outer # 0

\* A recipe: empty (no recipe), one of the three special recipes, or a rule's.
Recipes == {"empty", "noop", "default", "group", "rule"}

\* target::recipe, target.cxx:60-70: the two assertions and override.
RecipeOverride(a, action, recipe_) == ActionEq(a, action) /\ recipe_ # "empty"
RecipeAssert1Off(a, action, recipe_) == TRUE
RecipeAssert1(a, action, recipe_) == ActionGt(a, action) \/ recipe_ = "empty"
RecipeAssert2Off(a, action, recipe_) == TRUE
RecipeAssert2(a, action, recipe_) == RecipeOverride(a, action, recipe_) => recipe_ = "noop"

\* target.cxx:75-84: the raw_state a recipe is installed with.
RecipeState(r) == IF r = "noop" THEN "unchanged" ELSE "unknown"

\* What executing the recipe of a target in state unknown or postponed can
\* leave in raw_state.
ExecuteStates(recipe_, st) ==
  IF recipe_ = "noop" THEN {"unchanged"}
  ELSE IF recipe_ = "group" THEN {"group"}
  ELSE {"unchanged", "changed", "failed"} \cup (IF st = "unknown" THEN {"postponed"} ELSE {})

RcInit ==
  rc = [action |-> NoAction, recipe |-> "empty", raw_state |-> "unknown", dependents |-> 0,
        pc |-> "run",
        last |-> [op |-> "none", a |-> NoAction, r |-> "empty", action0 |-> NoAction,
                  recipe0 |-> "empty", raw0 |-> "unknown", dependents0 |-> 0]]

InitRecipe == RcInit /\ TsIdle /\ ApIdle /\ PmIdle /\ ShIdle /\ PtIdle /\ ScIdle /\ YIdle /\ WIdle

RcLast(op, a, r) ==
  [op |-> op, a |-> a, r |-> r, action0 |-> rc.action, recipe0 |-> rc.recipe,
   raw0 |-> rc.raw_state, dependents0 |-> rc.dependents]

\* target::recipe (a, r).  A failed assertion ends the program.
Recipe(a, r) ==
  /\ rc.pc = "run"
  /\ IF RecipeAssert1(a, rc.action, rc.recipe) /\ RecipeAssert2(a, rc.action, rc.recipe)
       THEN rc' = [rc EXCEPT !.action = a,
                             !.recipe = r,
                             !.raw_state = RecipeState(r),
                             !.dependents = IF RecipeOverride(a, rc.action, rc.recipe)
                                              THEN rc.dependents ELSE 0,
                             !.last = RcLast("recipe", a, r)]
       ELSE rc' = [rc EXCEPT !.pc = "abort", !.last = RcLast("recipe", a, r)]
  /\ UNCHANGED <<tsVars, apVars, pmVars, sh, pt, sc, yVars, wVars>>

\* The target's recipe is executed for its action.
Execute(ns) ==
  /\ rc.pc = "run"
  /\ rc.recipe # "empty"
  /\ rc.raw_state \in {"unknown", "postponed"}
  /\ ns \in ExecuteStates(rc.recipe, rc.raw_state)
  /\ rc' = [rc EXCEPT !.raw_state = ns, !.last = RcLast("execute", rc.action, rc.recipe)]
  /\ UNCHANGED <<tsVars, apVars, pmVars, sh, pt, sc, yVars, wVars>>

\* An execute_direct that performed work on a target that was unchanged.
ExecuteDirect ==
  /\ rc.pc = "run"
  /\ rc.recipe \notin {"empty", "noop"}
  /\ rc.raw_state = "unchanged"
  /\ rc' = [rc EXCEPT !.raw_state = "changed",
                      !.last = RcLast("execute_direct", rc.action, rc.recipe)]
  /\ UNCHANGED <<tsVars, apVars, pmVars, sh, pt, sc, yVars, wVars>>

\* A dependent is matched to the target.
Depend ==
  /\ rc.pc = "run"
  /\ rc.dependents < MaxDependents
  /\ rc' = [rc EXCEPT !.dependents = rc.dependents + 1,
                      !.last = RcLast("depend", rc.action, rc.recipe)]
  /\ UNCHANGED <<tsVars, apVars, pmVars, sh, pt, sc, yVars, wVars>>

\* The recipes are reset between meta-operations.
ResetRecipe ==
  /\ rc.pc = "run"
  /\ rc.recipe # "empty"
  /\ rc' = [rc EXCEPT !.recipe = "empty", !.raw_state = "unknown", !.dependents = 0,
                      !.last = RcLast("reset", rc.action, rc.recipe)]
  /\ UNCHANGED <<tsVars, apVars, pmVars, sh, pt, sc, yVars, wVars>>

NextRecipe ==
  \/ \E a \in Actions, r \in Recipes : Recipe(a, r)
  \/ \E ns \in {"unchanged", "changed", "failed", "postponed", "group"} : Execute(ns)
  \/ ExecuteDirect
  \/ Depend
  \/ ResetRecipe

SpecRecipe == InitRecipe /\ [][NextRecipe]_vars

\* The last call of target::recipe returned.
RecipeReturned == rc.last.op = "recipe" /\ rc.pc = "run"

SameActionStep ==
  /\ rc'.last.op \in {"recipe", "execute", "execute_direct", "depend"}
  /\ rc'.pc = "run"
  /\ rc.recipe # "empty"
  /\ rc'.action.inner = rc.action.inner

\* C18 (as claimed): no operation for the same action moves raw_state back to
\* unknown, and changed stays changed.
C18_AsClaimed ==
  [][SameActionStep =>
       /\ rc.raw_state # "unknown" => rc'.raw_state # "unknown"
       /\ rc.raw_state = "changed" => rc'.raw_state = "changed"]_vars

\* C18 (amended): for the same action, changed stays changed, and raw_state
\* moves back to unknown only from unchanged and only when target::recipe
\* overrides a noop recipe by another recipe.
C18_RawStateMonotonic ==
  [][SameActionStep =>
       /\ rc.raw_state = "changed" => rc'.raw_state = "changed"
       /\ (rc.raw_state # "unknown" /\ rc'.raw_state = "unknown") =>
            /\ rc'.last.op = "recipe"
            /\ rc.recipe = "noop"
            /\ rc.raw_state = "unchanged"
            /\ rc'.recipe # "noop"]_vars

\* target::recipe has overridden a noop recipe of the same action and the
\* state went from unchanged to unknown.
C18_Witness ==
  /\ RecipeReturned
  /\ rc.last.recipe0 = "noop"
  /\ rc.last.a.inner = rc.last.action0.inner
  /\ rc.last.raw0 = "unchanged"
  /\ rc.raw_state = "unknown"

(***************************************************************************)
(*     script::parser::exec_lines  (libbuild2/script/parser.cxx)           *)
(***************************************************************************)

\* Bound of the script machine: the number of lines of a script.
MaxScript == 5

LineTypes == {"var", "cmd", "if", "ifn", "elif", "elifn", "else", "end"}
IfTypes == {"if", "ifn"}
ElifTypes == {"elif", "elifn"}

\* The scripts the parser hands over: if-else chains are closed by an end,
\* nested properly, and an else is the last branch of its chain.  open lists
\* the chains open at line k, innermost last, each by its last branch type.
RECURSIVE WellFormed(_, _, _)
WellFormed(s, k, open) ==
  IF k > Len(s) THEN open = <<>>
  ELSE LET lt == s[k]
           n == Len(open)
       IN IF lt \in IfTypes THEN WellFormed(s, k + 1, Append(open, "if"))
          ELSE IF lt \in ElifTypes
            THEN n > 0 /\ open[n] = "if" /\ WellFormed(s, k + 1, open)
          ELSE IF lt = "else"
            THEN n > 0 /\ open[n] = "if"
                 /\ WellFormed(s, k + 1, [open EXCEPT ![n] = "else"])
          ELSE IF lt = "end"
            THEN n > 0 /\ WellFormed(s, k + 1, SubSeq(open, 1, n - 1))
          ELSE WellFormed(s, k + 1, open)

Scripts ==
  {s \in UNION {[1..k -> LineTypes] : k \in 1..MaxScript} : WellFormed(s, 1, <<>>)}

\* The lines that are given a command line index.
Counted == {"cmd", "if", "ifn", "elif", "elifn"}

\* The next lambda of exec_lines, parser.cxx:1929-1982, from line k on (the
\* loop starts at ++j): n is the nesting, cnt the increments of li so far.
\* The result is the line found and the increments of li; missing stands for
\* the assertion at the end of the lambda.
RECURSIVE NextScan(_, _, _, _, _, _, _)
NextScan(s, k, e, n, end, skip, cnt) ==
  IF k = e THEN [j |-> e, cnt |-> cnt, missing |-> TRUE]
  ELSE LET lt == s[k]
           n1 == IF lt \in IfTypes THEN n + 1 ELSE n
       IN IF n1 = 0 /\ (lt = "end" \/ (lt \in ElifTypes \cup {"else"} /\ ~end))
            THEN [j |-> k, cnt |-> cnt, missing |-> FALSE]
          ELSE NextScan(s, k + 1, e,
                        IF lt = "end" THEN n1 - 1 ELSE n1,
                        end, skip,
                        IF skip /\ lt \in Counted THEN cnt + 1 ELSE cnt)

\* next (j, end, skip) in a call of exec_lines whose range ends at e.
NextLine(s, j, e, end, skip) == NextScan(s, j + 1, e, 0, end, skip, 0)

\* parser.cxx:1910-1921: whether the branch of a line of type lt is taken when
\* exec_if returns r.
TakeNoNeg(lt, r) == r
Take(lt, r) ==
  IF lt = "else" THEN TRUE
  ELSE IF lt \in {"ifn", "elifn"} THEN ~r
  ELSE r

\* The end of the range of the running exec_lines call.
ScEnd == sc.stack[Len(sc.stack)]

ScInit ==
  \E s \in Scripts :
    sc = [lines |-> s, i |-> 1, li |-> 1, stack |-> <<Len(s) + 1>>, pc |-> "run",
          ev |-> [k \in 1..Len(s) |-> "none"],
          liAt |-> [k \in 1..Len(s) |-> 0]]

InitScript == ScInit /\ TsIdle /\ ApIdle /\ PmIdle /\ ShIdle /\ PtIdle /\ RcIdle /\ YIdle /\ WIdle

\* case line_type::var, parser.cxx:1863-1882.
ExecSet ==
  /\ sc.pc = "run"
  /\ sc.i < ScEnd
  /\ sc.lines[sc.i] = "var"
  /\ sc' = [sc EXCEPT !.liAt[sc.i] = sc.li, !.i = sc.i + 1]
  /\ UNCHANGED <<tsVars, apVars, pmVars, sh, pt, rc, yVars, wVars>>

\* catch (const exit& e), parser.cxx:2022-2032: throw failed () for the
\* failure status, otherwise the call is about to return false.
CatchExit(status) == IF ~status THEN "failed" ELSE "exited"

\* case line_type::cmd, parser.cxx:1883-1900: exec_cmd (t, tt, li++, ...),
\* which may throw exit with either status.
ExecCmd(exit) ==
  /\ sc.pc = "run"
  /\ sc.i < ScEnd
  /\ sc.lines[sc.i] = "cmd"
  /\ IF exit
       THEN \E status \in BOOLEAN :
              sc' = [sc EXCEPT !.liAt[sc.i] = sc.li, !.li = sc.li + 1,
                               !.pc = CatchExit(status)]
       ELSE sc' = [sc EXCEPT !.liAt[sc.i] = sc.li, !.li = sc.li + 1, !.i = sc.i + 1]
  /\ UNCHANGED <<tsVars, apVars, pmVars, sh, pt, rc, yVars, wVars>>

\* The if-else cases, parser.cxx:1901-2012, up to the recursive call or the
\* skip to the next branch; r is what exec_if returns.  case cmd_end
\* (parser.cxx:2013-2016) is an assertion.
ExecIfElse(r) ==
  /\ sc.pc = "run"
  /\ sc.i < ScEnd
  /\ sc.lines[sc.i] \in IfTypes \cup ElifTypes \cup {"else", "end"}
  /\ sc.lines[sc.i] \in {"else", "end"} => r
  /\ LET lt == sc.lines[sc.i]
         li1 == IF lt # "else" THEN sc.li + 1 ELSE sc.li
         s1 == [sc EXCEPT !.liAt[sc.i] = sc.li, !.li = li1,
                          !.ev[sc.i] = IF lt = "else" THEN "else"
                                       ELSE IF r THEN "T" ELSE "F"]
     IN IF lt = "end" THEN sc' = [sc EXCEPT !.pc = "abort"]
        ELSE IF Take(lt, r)
          THEN LET nx == NextLine(sc.lines, sc.i, ScEnd, FALSE, FALSE)
               IN sc' = IF nx.missing THEN [s1 EXCEPT !.pc = "abort"]
                        ELSE [s1 EXCEPT !.stack = Append(sc.stack, nx.j), !.i = sc.i + 1]
          ELSE LET nx == NextLine(sc.lines, sc.i, ScEnd, FALSE, TRUE)
               IN sc' = IF nx.missing THEN [s1 EXCEPT !.pc = "abort"]
                        ELSE [s1 EXCEPT !.li = li1 + nx.cnt,
                                        !.i = IF sc.lines[nx.j] = "end" THEN nx.j + 1
                                              ELSE nx.j]
  /\ UNCHANGED <<tsVars, apVars, pmVars, sh, pt, rc, yVars, wVars>>

\* The recursive exec_lines call of a taken branch returns true,
\* parser.cxx:1996-2002: the rest of the chain is skipped.
BranchDone ==
  /\ sc.pc = "run"
  /\ sc.i = ScEnd
  /\ Len(sc.stack) > 1
  /\ LET j == ScEnd
         up == SubSeq(sc.stack, 1, Len(sc.stack) - 1)
         e == up[Len(up)]
     IN IF sc.lines[j] = "end"
          THEN sc' = [sc EXCEPT !.stack = up, !.i = j + 1]
          ELSE LET nx == NextLine(sc.lines, j, e, TRUE, TRUE)
               IN sc' = IF nx.missing THEN [sc EXCEPT !.pc = "abort"]
                        ELSE [sc EXCEPT !.stack = up, !.li = sc.li + nx.cnt, !.i = nx.j + 1]
  /\ UNCHANGED <<tsVars, apVars, pmVars, sh, pt, rc, yVars, wVars>>

\* if (!exec_lines (...)) return false; parser.cxx:1996-2000, for the value
\* v that the call returned.
ReturnsFalseNever(v) == FALSE
ReturnsFalse(v) == ~v

\* An exec_lines call returns false after an exit: the caller, if there is
\* one, tests the result of its recursive call.
ExitReturn ==
  /\ sc.pc = "exited"
  /\ sc.stack # <<>>
  /\ LET j == ScEnd
         up == SubSeq(sc.stack, 1, Len(sc.stack) - 1)
     IN IF up = <<>> \/ ReturnsFalse(FALSE) THEN sc' = [sc EXCEPT !.stack = up]
        ELSE IF sc.lines[j] = "end"
          THEN sc' = [sc EXCEPT !.pc = "run", !.stack = up, !.i = j + 1]
          ELSE LET nx == NextLine(sc.lines, j, up[Len(up)], TRUE, TRUE)
               IN sc' = IF nx.missing THEN [sc EXCEPT !.pc = "abort"]
                        ELSE [sc EXCEPT !.pc = "run", !.stack = up,
                                        !.li = sc.li + nx.cnt, !.i = nx.j + 1]
  /\ UNCHANGED <<tsVars, apVars, pmVars, sh, pt, rc, yVars, wVars>>

\* The outermost exec_lines call returns true, parser.cxx:2020.
LinesDone ==
  /\ sc.pc = "run"
  /\ sc.i = ScEnd
  /\ Len(sc.stack) = 1
  /\ sc' = [sc EXCEPT !.pc = "done"]
  /\ UNCHANGED <<tsVars, apVars, pmVars, sh, pt, rc, yVars, wVars>>

NextScript ==
  \/ ExecSet
  \/ \E exit \in BOOLEAN : ExecCmd(exit)
  \/ \E r \in BOOLEAN : ExecIfElse(r)
  \/ BranchDone
  \/ ExitReturn
  \/ LinesDone

SpecScript == InitScript /\ [][NextScript]_vars

(***************************************************************************)
(*                 Properties of the script machine                        *)
(***************************************************************************)

\* The chains open before line k.
Level(s, k) ==
  Cardinality({j \in 1..(k - 1) : s[j] \in IfTypes})
    - Cardinality({j \in 1..(k - 1) : s[j] = "end"})

IfLines(s) == {k \in 1..Len(s) : s[k] \in IfTypes}

\* The end line of the chain that starts at line p.
MatchEnd(s, p) ==
  CHOOSE q \in (p + 1)..Len(s) :
    /\ s[q] = "end" /\ Level(s, q) = Level(s, p) + 1
    /\ \A x \in (p + 1)..(q - 1) : ~(s[x] = "end" /\ Level(s, x) = Level(s, p) + 1)

\* The if, elif and else lines of the chain that starts at line p.
ChainHeaders(s, p) ==
  {p} \cup {h \in (p + 1)..(MatchEnd(s, p) - 1) :
              s[h] \in ElifTypes \cup {"else"} /\ Level(s, h) = Level(s, p) + 1}

\* The lines of the branch of header h of the chain that starts at p.
Branch(s, p, h) ==
  LET after == {x \in ChainHeaders(s, p) \cup {MatchEnd(s, p)} : x > h}
      stop == CHOOSE x \in after : \A y \in after : x <= y
  IN (h + 1)..(stop - 1)

\* Line k was executed (a var or cmd line) or evaluated (an if-else line).
Touched(k) == sc.liAt[k] # 0

\* The condition of header h, negated for if! and elif!, holds.
Holds(h) ==
  \/ sc.lines[h] = "else"
  \/ sc.lines[h] \in {"if", "elif"} /\ sc.ev[h] = "T"
  \/ sc.lines[h] \in {"ifn", "elifn"} /\ sc.ev[h] = "F"

\* C19: of an if-else chain, a branch header is reached only after all the
\* headers before it were evaluated and did not hold; lines of a branch are
\* executed only if its header was reached and holds; and when the lines are
\* done, the lines of the first branch that holds were executed and so was
\* the line after the chain's end.
C19_OneBranch ==
  /\ sc.pc \in {"run", "done", "exited", "failed"}
  /\ \A p \in IfLines(sc.lines) :
       LET hs == ChainHeaders(sc.lines, p)
           q == MatchEnd(sc.lines, p)
       IN /\ ~Touched(q)
          /\ \A h \in hs :
               /\ Touched(h) => \A g \in hs : g < h => (Touched(g) /\ ~Holds(g))
               /\ \A k \in Branch(sc.lines, p, h) : Touched(k) => (Touched(h) /\ Holds(h))
               /\ (sc.pc = "done" /\ Touched(h) /\ Holds(h)) =>
                    \A k \in Branch(sc.lines, p, h) :
                      (Level(sc.lines, k) = Level(sc.lines, p) + 1
                         /\ sc.lines[k] \in {"var", "cmd", "if", "ifn"}) => Touched(k)
          /\ (sc.pc = "done" /\ Touched(p) /\ q < Len(sc.lines)
                /\ sc.lines[q + 1] \in {"var", "cmd", "if", "ifn"}) => Touched(q + 1)

\* if false; cmd; elif true; cmd; end was run to its end: only the second
\* command was executed.
C19_Witness ==
  /\ sc.pc = "done"
  /\ sc.lines = <<"if", "cmd", "elif", "cmd", "end">>
  /\ sc.ev[1] = "F"
  /\ sc.ev[3] = "T"
  /\ ~Touched(2)
  /\ Touched(4)

\* The command line index of line k in the script as written.
IndexOf(s, k) == 1 + Cardinality({j \in 1..(k - 1) : s[j] \in Counted})

\* C20: every line that is executed or evaluated gets the index it has in the
\* script as written, and when the lines are done li is one more than the
\* number of command, if, if!, elif and elif! lines.
C20_LineIndex ==
  /\ \A k \in 1..Len(sc.lines) : Touched(k) => sc.liAt[k] = IndexOf(sc.lines, k)
  /\ sc.pc = "done" => sc.li = IndexOf(sc.lines, Len(sc.lines) + 1)

\* C39: once a command has raised exit, no line is executed or evaluated any
\* more, those after an enclosing if-construct included: for the failure
\* status failed is raised and nothing follows; for the success status each
\* step is the return of false from one more exec_lines call, the innermost
\* first, until the outermost has returned.
C39_ExitStops ==
  [][sc.pc \in {"exited", "failed"} =>
       /\ sc.pc = "exited"
       /\ sc'.pc = "exited"
       /\ sc'.liAt = sc.liAt /\ sc'.ev = sc.ev /\ sc'.li = sc.li /\ sc'.i = sc.i
       /\ sc.stack # <<>>
       /\ sc'.stack = SubSeq(sc.stack, 1, Len(sc.stack) - 1)]_vars

\* if true; exit; end; cmd: the command in the branch exited with success,
\* both calls have returned false and the last command was not executed.
C39_Witness ==
  /\ sc.pc = "exited"
  /\ sc.stack = <<>>
  /\ sc.lines = <<"if", "cmd", "end", "cmd">>
  /\ Touched(2)
  /\ ~Touched(4)

(***************************************************************************)
(* The $* and $N aliases of a test script (build2/test/script/parser.cxx): *)
(* parse_variable_line in the execute pass and lookup_variable.  The       *)
(* parser has one scope, the script (scope_ = script_).  A string is a     *)
(* sequence of characters, test is a path, test.options and                *)
(* test.arguments are lists of strings, x is any other variable.           *)
(***************************************************************************)
MaxArgs == 1      \* longest test.options / test.arguments list
MaxIdx == 1       \* largest N of a $N that is read

\* A variable that is undefined or null, and a variable_map entry that is
\* absent: two sequences longer, hence different from, every string and list
\* that the variables can hold.
Null == [i \in 1..(2 * MaxArgs + 2) |-> "null"]
Undef == [i \in 1..(2 * MaxArgs + 3) |-> "undefined"]

VrWords == {<<"a">>, <<"b">>}
VrNames == {"test", "test.options", "test.arguments", "x"}
VrKinds == {"assign", "append", "prepend"}

\* var.name == test_var.name || ... opts_var.name || ... args_var.name
IsSourceNoArgs(name) == name \in {"test", "test.options"}
IsSource(name) == name \in {"test", "test.options", "test.arguments"}

\* The value of the right-hand side for a variable of this name: a path, or
\* a list of one string.
VrRhs(name, w) == IF name \in {"test", "x"} THEN w ELSE <<w>>

\* scope_->assign (var) / scope_->append (var) followed by
\* apply_value_attributes (&var, lhs, move (rhs), kind).
ApplyValue(lhs, rhs, kind) ==
  IF kind = "assign" \/ lhs = Null THEN rhs
  ELSE IF kind = "append" THEN lhs \o rhs
  ELSE rhs \o lhs

\* The bound on what a variable line may build: paths and other values of
\* one character, lists of MaxArgs strings.
VrFits(name, v) ==
  IF name \in {"test", "x"} THEN Len(v) <= 1 ELSE Len(v) <= MaxArgs

VrGet(name) ==
  CASE name = "test" -> vr.test
    [] name = "test.options" -> vr.opts
    [] name = "test.arguments" -> vr.args
    [] OTHER -> vr.x

\* The recalculation of $* from its sources.
Recalc(test, opts, args) ==
  LET s1 == IF test # Null THEN <<test>> ELSE <<>>
      s2 == IF opts # Null THEN s1 \o opts ELSE s1
  IN IF args # Null THEN s2 \o args ELSE s2

VrInit ==
  \E t \in {Null} \cup VrWords :
    vr = [test |-> t, opts |-> Null, args |-> Null, x |-> Null,
          cmd |-> Null,
          nn |-> [n \in 0..MaxIdx |-> Undef],
          last |-> [op |-> "none"]]

InitVars == VrInit /\ TsIdle /\ ApIdle /\ PmIdle /\ ShIdle /\ PtIdle /\ RcIdle /\ ScIdle
            /\ HdIdle /\ CeIdle /\ PqIdle /\ MkIdle /\ DbIdle /\ WIdle

\* parse_variable_line with pre_parse_ false.
VariableLine(name, kind, w) ==
  LET lhs == ApplyValue(VrGet(name), VrRhs(name, w), kind)
      cmd == IF IsSource(name) THEN Null ELSE vr.cmd
  IN /\ VrFits(name, lhs)
     /\ name = "x" => w = <<"a">>
     /\ vr' = [vr EXCEPT !.test = IF name = "test" THEN lhs ELSE @,
                         !.opts = IF name = "test.options" THEN lhs ELSE @,
                         !.args = IF name = "test.arguments" THEN lhs ELSE @,
                         !.x = IF name = "x" THEN lhs ELSE @,
                         !.cmd = cmd,
                         !.last = [op |-> "set", name |-> name]]
     /\ UNCHANGED <<zVars, hd, ce, pq, mk, db>>

\* lookup_variable of a name that is neither * nor digits.
LookupPlain ==
  /\ vr' = [vr EXCEPT !.last = [op |-> "get", name |-> "x", ret |-> vr.x]]
  /\ UNCHANGED <<zVars, hd, ce, pq, mk, db>>

\* lookup_variable ("*").
LookupStar ==
  LET recalc == vr.cmd = Null
      v == IF recalc THEN Recalc(vr.test, vr.opts, vr.args) ELSE vr.cmd
  IN /\ vr' = [vr EXCEPT !.cmd = v,
                         !.last = [op |-> "get", name |-> "*", ret |-> v]]
     /\ UNCHANGED <<zVars, hd, ce, pq, mk, db>>

\* lookup_variable of the digits of i.
LookupN(i) ==
  LET recalc == vr.cmd = Null
      v == IF recalc THEN Recalc(vr.test, vr.opts, vr.args) ELSE vr.cmd
      cached == ~recalc /\ vr.nn[i] # Undef
      nv == IF i < Len(v) THEN v[i + 1] ELSE Null
      ret == IF cached THEN vr.nn[i] ELSE nv
  IN /\ vr' = [vr EXCEPT !.cmd = v,
                         !.nn[i] = ret,
                         !.last = [op |-> "get", name |-> "N", n |-> i, ret |-> ret]]
     /\ UNCHANGED <<zVars, hd, ce, pq, mk, db>>

NextVars ==
  \/ \E name \in VrNames, kind \in VrKinds, w \in VrWords : VariableLine(name, kind, w)
  \/ LookupPlain
  \/ LookupStar
  \/ \E i \in 0..MaxIdx : LookupN(i)

SpecVars == InitVars /\ [][NextVars]_vars

(***************************************************************************)
(* Properties of the aliases.                                              *)
(***************************************************************************)
\* What $* stands for: the path in test, then the options, then the arguments.
StarNow ==
  (IF vr.test = Null THEN <<>> ELSE <<vr.test>>)
    \o (IF vr.opts = Null THEN <<>> ELSE vr.opts)
    \o (IF vr.args = Null THEN <<>> ELSE vr.args)

\* C21: a read of $N returns the N-th element of what $* stands for at that
\* moment, null when there is no such element; in particular never a value
\* that was cached before one of the sources was modified.
C21_NthOfStar ==
  (vr.last.op = "get" /\ vr.last.name = "N") =>
    vr.last.ret = (IF vr.last.n < Len(StarNow) THEN StarNow[vr.last.n + 1] ELSE Null)

\* C22: a read of $* returns the concatenation of the current values of test,
\* test.options and test.arguments; a variable line on one of the three leaves
\* $* null, and after a read of $* or $N the stored $* is the concatenation.
C22_StarFromSources ==
  /\ [](/\ (vr.last.op = "get" /\ vr.last.name = "*") => vr.last.ret = StarNow
        /\ (vr.last.op = "get" /\ vr.last.name \in {"*", "N"}) => vr.cmd = StarNow
        /\ (vr.last.op = "set" /\ vr.last.name \in {"test", "test.options", "test.arguments"})
             => vr.cmd = Null
        /\ vr.cmd \in {Null, StarNow})
  /\ [][(vr'.last.op = "set" /\ vr'.last.name = "x") => vr'.cmd = vr.cmd]_vars

\* $* was read, test.arguments was appended to, and $* was read again and
\* has the new argument at its end.
C22_Witness ==
  /\ vr.last.op = "get"
  /\ vr.last.name = "*"
  /\ vr.test # Null
  /\ vr.opts # Null
  /\ vr.args # Null
  /\ vr.opts # vr.args
  /\ vr.nn[MaxIdx] \notin {Undef, Null}
  /\ vr.last.ret = <<vr.test>> \o vr.opts \o vr.args

(***************************************************************************)
(* Here-document redirects of one command line                             *)
(* (libbuild2/script/parser.cxx): the pre-parse of the end markers in      *)
(* parse_command_expr, parse_here_documents, and the same line in the      *)
(* execute pass.  The line is a program followed by here-document          *)
(* redirects; a string is a sequence of characters.                        *)
(***************************************************************************)
MaxRedirs == 2    \* here-document redirects on the line

\* string::find (c, from) and string::find (c) != npos, positions from 0.
StrFindFrom(s, c, from) ==
  LET I == {i \in from..(Len(s) - 1) : s[i + 1] = c}
  IN IF I = {} THEN Npos ELSE CHOOSE i \in I : \A j \in I : i <= j

HasChar(s, c) == \E i \in 1..Len(s) : s[i] = c

\* regex_parts (): the special empty object.
NoRegex == [ok |-> TRUE, value |-> <<>>, intro |-> "", flags |-> <<>>]

\* parse_regex (s, l, what) without an end position.
parse_regex(s) ==
  IF s = <<>> THEN [ok |-> FALSE, what |-> "no introducer character"]
  ELSE LET p == StrFindFrom(s, s[1], 1)
       IN IF p = Npos THEN [ok |-> FALSE, what |-> "no closing introducer character"]
          ELSE IF p - 1 = 0 THEN [ok |-> FALSE, what |-> "is empty"]
          ELSE LET fp == p + 1
                   NotFlag == {i \in fp..(Len(s) - 1) : s[i + 1] \notin {"d", "i"}}
               IN IF NotFlag # {} THEN [ok |-> FALSE, what |-> "junk at the end"]
                  ELSE [ok |-> TRUE,
                        value |-> SubSeq(s, 2, p),
                        intro |-> s[1],
                        flags |-> SubSeq(s, fp + 1, Len(s))]

\* check_regex_mod: the portable path modifier with the '/' introducer.
check_regex_mod(mod, re) == ~(HasChar(mod, "/") /\ re # <<>> /\ re[1] = "/")

\* The tokens that can follow a here-document redirect operator.
HdQuotes == {[qtype |-> "unquoted", qcomp |-> FALSE],
             [qtype |-> "single", qcomp |-> TRUE],
             [qtype |-> "single", qcomp |-> FALSE],
             [qtype |-> "double", qcomp |-> TRUE],
             [qtype |-> "double", qcomp |-> FALSE],
             [qtype |-> "mixed", qcomp |-> FALSE]}

HdPlainValues == {<<>>, <<"E">>, <<"F">>}
HdRegexValues == {<<>>, <<"/", "E">>, <<"/", "/">>, <<"/", "E", "/", "x">>,
                  <<"/", "E", "/">>, <<"|", "E", "|">>, <<"/", "E", "/", "i">>}

\* The modifiers the lexer puts into the token of << and of >>: no ~ for <<.
HdMods(fd) == IF fd = 0 THEN {<<>>, <<":">>} ELSE {<<>>, <<":">>, <<"~">>}

\* What follows the marker without separation ("sep": it is separated).
HdPeeks == {"sep", "dollar", "lparen", "word"}

\* The switch on the quote type of the end marker: fails on a mixed and on a
\* not completely single- or double-quoted token.
PartiallyQuotedNever(q) == FALSE
PartiallyQuoted(q) ==
  \/ q.qtype = "mixed"
  \/ q.qtype \in {"single", "double"} /\ ~q.qcomp

\* bool literal (qt == quote_type::single), an unquoted token being treated
\* as single-quoted; in the execute pass, qtype unquoted or single.
HdLiteralAll(q) == TRUE
HdLiteral(q) == q.qtype \in {"unquoted", "single"}

\* The pre-parse of one here-document redirect: the result is a failure or
\* the list of expected here-documents.
PreMarker(docs, mod, tokType, val, q, peek) ==
  LET re == HasChar(mod, "~")
      r == IF re THEN parse_regex(val) ELSE NoRegex
      end == IF re /\ r.ok THEN r.value ELSE val
      literal == HdLiteral(q)
      same == {i \in 1..Len(docs) : docs[i].end = end}
      d == docs[CHOOSE i \in same : \A j \in same : i <= j]
  IN IF tokType # "word" \/ val = <<>> THEN [ok |-> FALSE, what |-> "expected end marker"]
     ELSE IF peek \in {"dollar", "lparen"} THEN [ok |-> FALSE, what |-> "must be literal"]
     ELSE IF PartiallyQuoted(q) THEN [ok |-> FALSE, what |-> "partially-quoted"]
     ELSE IF re /\ ~check_regex_mod(mod, val) THEN [ok |-> FALSE, what |-> "portable path"]
     ELSE IF ~r.ok THEN r
     ELSE IF same # {}
       THEN IF d.modifiers # mod THEN [ok |-> FALSE, what |-> "different modifiers"]
            ELSE IF d.literal # literal THEN [ok |-> FALSE, what |-> "different quoting"]
            ELSE IF re /\ d.regex # r.intro THEN [ok |-> FALSE, what |-> "different introducers"]
            ELSE IF re /\ d.regex_flags # r.flags
              THEN [ok |-> FALSE, what |-> "different global flags"]
            ELSE [ok |-> TRUE, shared |-> TRUE, docs |-> docs]
     ELSE [ok |-> TRUE, shared |-> FALSE,
           docs |-> Append(docs, [end |-> end, literal |-> literal, modifiers |-> mod,
                                  regex |-> r.intro, regex_flags |-> r.flags])]

NoRedirect == [type |-> "none", doc |-> 0, ref |-> 3]

HdInit ==
  hd = [phase |-> "pre", line |-> <<>>, docs |-> <<>>, last |-> [op |-> "none"],
        k |-> 1, xdocs |-> <<>>, c |-> [fd \in 0..2 |-> NoRedirect], bodies |-> 0]

InitHereDoc == HdInit /\ TsIdle /\ ApIdle /\ PmIdle /\ ShIdle /\ PtIdle /\ RcIdle /\ ScIdle
               /\ VrIdle /\ CeIdle /\ PqIdle /\ MkIdle /\ DbIdle /\ WIdle

\* parse_command_expr with pre_parse_ true, at a << or >> token.
PreRedirect(fd, mod, tokType, val, q, peek) ==
  LET r == PreMarker(hd.docs, mod, tokType, val, q, peek)
      it == [fd |-> fd, mod |-> mod, val |-> val, q |-> q]
  IN /\ hd.phase = "pre"
     /\ Len(hd.line) < MaxRedirs
     /\ hd' = IF r.ok
                THEN [hd EXCEPT !.line = Append(@, it),
                                !.docs = r.docs,
                                !.last = [op |-> "pre", ok |-> TRUE, shared |-> r.shared,
                                          peek |-> peek]]
                ELSE [hd EXCEPT !.phase = "fail",
                                !.last = [op |-> "pre", ok |-> FALSE, what |-> r.what,
                                          it |-> it, tok |-> tokType, peek |-> peek]]
     /\ UNCHANGED <<zVars, vr, ce, pq, mk, db>>

\* The newline in the pre-parse and parse_here_documents with pre_parse_
\* true: one fragment is parsed for every expected here-document.
PreDocuments ==
  /\ hd.phase = "pre"
  /\ hd' = [hd EXCEPT !.phase = "exec", !.bodies = Len(hd.docs),
                      !.last = [op |-> "predocs"]]
  /\ UNCHANGED <<zVars, vr, ce, pq, mk, db>>

\* The redirect type parse_redirect gives a << or >> token.
HdType(mod) == IF HasChar(mod, "~") THEN "here_doc_regex" ELSE "here_doc_literal"

\* Variants of the erasure: the reference is left in place; the here_doc
\* that loses its last reference is erased with it.
EraseRefNone(docs, fd) == docs
EraseRefDrop(docs, fd) ==
  LET has == {i \in 1..Len(docs) : \E j \in 1..Len(docs[i].redirects) :
                                       docs[i].redirects[j] = fd}
      i == CHOOSE x \in has : \A y \in has : x <= y
  IN IF has = {} THEN docs
     ELSE SelectSeq([docs EXCEPT ![i].redirects = SelectSeq(@, LAMBDA f : f # fd)],
                    LAMBDA d : d.redirects # <<>>)

\* parse_redirect, overriding a here-document: the reference to this
\* redirect is erased from the first here_doc that has it.
EraseRef(docs, fd) ==
  LET has == {i \in 1..Len(docs) : \E j \in 1..Len(docs[i].redirects) :
                                       docs[i].redirects[j] = fd}
      i == CHOOSE x \in has : \A y \in has : x <= y
  IN IF has = {} THEN docs
     ELSE [docs EXCEPT ![i].redirects = SelectSeq(@, LAMBDA f : f # fd)]

\* parse_command_expr with pre_parse_ false, at a << or >> token and at the
\* end marker that follows it.
ExecRedirect ==
  LET it == hd.line[hd.k]
      rt == HdType(it.mod)
      overriden == hd.c[it.fd].type
      docs1 == IF overriden \in {"here_doc_literal", "here_doc_regex"}
                 THEN EraseRef(hd.xdocs, it.fd) ELSE hd.xdocs
      r == IF rt = "here_doc_regex" THEN parse_regex(it.val) ELSE NoRegex
      end == IF rt = "here_doc_regex" THEN r.value ELSE it.val
      same == {i \in 1..Len(docs1) : docs1[i].end = end}
      first == CHOOSE i \in same : \A j \in same : i <= j
      docs2 == IF same # {}
                 THEN [docs1 EXCEPT ![first].redirects = Append(@, it.fd)]
                 ELSE Append(docs1,
                             [redirects |-> <<it.fd>>, end |-> end,
                              literal |-> HdLiteral(it.q),
                              modifiers |-> it.mod,
                              regex |-> r.intro, regex_flags |-> r.flags])
  IN /\ hd.phase = "exec"
     /\ hd.k <= Len(hd.line)
     /\ hd' = [hd EXCEPT !.k = @ + 1,
                         !.c[it.fd] = [type |-> rt, doc |-> 0, ref |-> 3],
                         !.xdocs = docs2,
                         !.last = [op |-> "exec"]]
     /\ UNCHANGED <<zVars, vr, ce, pq, mk, db>>

\* parse_here_documents with pre_parse_ false, for the here-documents from
\* index h on: the fragment of here-document h goes into its first redirect
\* and the other redirects become references to that one; a here-document
\* with no redirect left is parsed and dropped.
HereRedirectOwn(r, rs, fd, h) ==
  IF \E j \in 1..Len(rs) : rs[j] = fd THEN [r EXCEPT !.doc = h] ELSE r
HereRedirect(r, rs, fd, h) ==
  IF fd = rs[1] THEN [r EXCEPT !.doc = h]
  ELSE IF \E j \in 2..Len(rs) : rs[j] = fd
    THEN [type |-> "here_doc_ref", doc |-> 0, ref |-> rs[1]]
  ELSE r

RECURSIVE HereDocuments(_, _, _)
HereDocuments(docs, h, c) ==
  IF h > Len(docs) THEN c
  ELSE LET rs == docs[h].redirects
           c1 == IF rs = <<>> THEN c
                 ELSE [fd \in 0..2 |-> HereRedirect(c[fd], rs, fd, h)]
       IN HereDocuments(docs, h + 1, c1)

\* The newline in the execute pass and parse_here_documents.
ExecDocuments ==
  /\ hd.phase = "exec"
  /\ hd.k > Len(hd.line)
  /\ hd' = [hd EXCEPT !.phase = "done",
                      !.c = HereDocuments(hd.xdocs, 1, hd.c),
                      !.bodies = Len(hd.xdocs),
                      !.last = [op |-> "execdocs"]]
  /\ UNCHANGED <<zVars, vr, ce, pq, mk, db>>

NextHereDoc ==
  \/ /\ hd.phase = "pre"
     /\ Len(hd.line) < MaxRedirs
     /\ \E fd \in 0..2 :
       \E mod \in HdMods(fd), tokType \in {"word", "newline"}, q \in HdQuotes,
          peek \in HdPeeks :
         \E val \in (IF HasChar(mod, "~") THEN HdRegexValues ELSE HdPlainValues) :
             /\ tokType = "newline" => (val = <<>> /\ q.qtype = "unquoted" /\ peek = "sep")
             /\ PreRedirect(fd, mod, tokType, val, q, peek)
  \/ PreDocuments
  \/ ExecRedirect
  \/ ExecDocuments

SpecHereDoc == InitHereDoc /\ [][NextHereDoc]_vars

(***************************************************************************)
(* Properties of the here-document redirects.                              *)
(***************************************************************************)
\* The end marker of an accepted redirect, cleared of the regex framing.
EndOf(it) == IF HasChar(it.mod, "~") THEN parse_regex(it.val).value ELSE it.val

\* The redirects of the line that are in effect for their descriptor (the
\* last redirect of a descriptor wins) and have the end marker e.
LiveFds(e) ==
  {fd \in 0..2 :
     \E i \in 1..Len(hd.line) :
       /\ hd.line[i].fd = fd
       /\ EndOf(hd.line[i]) = e
       /\ \A j \in (i + 1)..Len(hd.line) : hd.line[j].fd # fd}

LineEnds == {EndOf(hd.line[i]) : i \in 1..Len(hd.line)}

\* The line is two redirects of different descriptors with the same end
\* marker and the same modifiers, as in cmd >>EOO 2>>EOO.
TwoShared ==
  /\ Len(hd.line) = 2
  /\ hd.line[1].fd # hd.line[2].fd
  /\ EndOf(hd.line[1]) = EndOf(hd.line[2])
  /\ hd.line[1].mod = hd.line[2].mod

Holders == {fd \in 0..2 : hd.c[fd].doc # 0}
Refs == {fd \in 0..2 : hd.c[fd].type = "here_doc_ref"}

\* C23 as stated: two redirects sharing one body end as one stored body and
\* two here_doc_ref redirects.
C23_AsClaimed ==
  (hd.phase = "done" /\ TwoShared) =>
    (Cardinality(Holders) = 1 /\ Cardinality(Refs) = 2)

\* C23: when the line and its here-documents are parsed, the redirects in
\* effect that share an end marker are one redirect of type
\* here_doc_literal or here_doc_regex that holds the body and here_doc_ref
\* redirects to that one for all the others; for two redirects with the same
\* marker and modifiers that is one stored body and one here_doc_ref.
C23_SharedBody ==
  hd.phase = "done" =>
    /\ \A e \in LineEnds :
         LiveFds(e) # {} =>
           \E o \in LiveFds(e) :
             /\ hd.c[o].type \in {"here_doc_literal", "here_doc_regex"}
             /\ hd.c[o].doc # 0
             /\ hd.xdocs[hd.c[o].doc].end = e
             /\ \A fd \in LiveFds(e) \ {o} :
                  hd.c[fd].type = "here_doc_ref" /\ hd.c[fd].ref = o
    /\ TwoShared => (Cardinality(Holders) = 1 /\ Cardinality(Refs) = 1)

\* cmd >>E 2>>E was parsed with its body: stdout holds it, stderr refers to
\* stdout.
C23_Witness ==
  /\ hd.phase = "done"
  /\ TwoShared
  /\ hd.line[1].fd = 1
  /\ hd.line[2].fd = 2
  /\ hd.line[1].mod = <<>>
  /\ hd.c[1].type = "here_doc_literal"
  /\ hd.c[1].doc = 1
  /\ hd.c[2].type = "here_doc_ref"
  /\ hd.c[2].ref = 1

\* The redirect that the pre-parse has just rejected or accepted, and the
\* redirects accepted before it.
HdCur == IF hd.last.ok THEN hd.line[Len(hd.line)] ELSE hd.last.it
HdBefore == IF hd.last.ok THEN SubSeq(hd.line, 1, Len(hd.line) - 1) ELSE hd.line

HdRegexOk(it) ==
  HasChar(it.mod, "~") => (check_regex_mod(it.mod, it.val) /\ parse_regex(it.val).ok)

\* The end marker token as such is unacceptable.
MarkerDefect ==
  \/ ~hd.last.ok /\ hd.last.tok # "word"
  \/ HdCur.val = <<>>
  \/ hd.last.peek \in {"dollar", "lparen"}
  \/ HdCur.q.qtype = "mixed"
  \/ HdCur.q.qtype \in {"single", "double"} /\ ~HdCur.q.qcomp

\* Two redirects with the same end marker that differ where sharing
\* requires them to agree, quoting taken as the quote type.
DiffersAsClaimed(a, b) ==
  \/ a.mod # b.mod
  \/ a.q.qtype # b.q.qtype
  \/ HasChar(a.mod, "~") /\ parse_regex(a.val).intro # parse_regex(b.val).intro
  \/ HasChar(a.mod, "~") /\ parse_regex(a.val).flags # parse_regex(b.val).flags

\* The same, quoting taken as: double-quoted or not.
Differs(a, b) ==
  \/ a.mod # b.mod
  \/ (a.q.qtype = "double") # (b.q.qtype = "double")
  \/ HasChar(a.mod, "~") /\ parse_regex(a.val).intro # parse_regex(b.val).intro
  \/ HasChar(a.mod, "~") /\ parse_regex(a.val).flags # parse_regex(b.val).flags

DifferentWhat == {"different modifiers", "different quoting",
                  "different introducers", "different global flags"}

\* C24 as stated: a redirect is accepted next to an earlier one with the
\* same end marker only if modifiers and quote type are identical.
C24_AsClaimed ==
  (hd.last.op = "pre" /\ hd.last.ok) =>
    \A i \in 1..Len(HdBefore) :
      EndOf(HdBefore[i]) = EndOf(HdCur) => ~DiffersAsClaimed(HdBefore[i], HdCur)

\* C24: in the pre-parse a redirect whose end marker equals that of an
\* earlier here-document of the line is accepted, sharing that
\* here-document, exactly if the modifiers are identical, both or neither
\* are double-quoted and, for a regex, introducer and flags are identical;
\* otherwise the parse fails with a "different ..." diagnostics; and the
\* expected here-documents have distinct end markers, one per end marker of
\* the line.
C24_SharedMarker ==
  /\ hd.last.op = "pre" =>
       LET clash == \E i \in 1..Len(HdBefore) :
                      /\ EndOf(HdBefore[i]) = EndOf(HdCur)
                      /\ Differs(HdBefore[i], HdCur)
       IN IF hd.last.ok
            THEN /\ ~clash
                 /\ hd.last.shared =
                      (\E i \in 1..Len(HdBefore) : EndOf(HdBefore[i]) = EndOf(HdCur))
            ELSE (hd.last.what \in DifferentWhat)
                   = (~MarkerDefect /\ HdRegexOk(HdCur) /\ clash)
  /\ hd.phase \in {"pre", "exec"} =>
       /\ \A i, j \in 1..Len(hd.docs) : hd.docs[i].end = hd.docs[j].end => i = j
       /\ {hd.docs[i].end : i \in 1..Len(hd.docs)} = LineEnds

\* >>E 2>>'E': an unquoted and a single-quoted marker share one expected
\* here-document.
C24_Witness ==
  /\ hd.last.op = "pre"
  /\ hd.last.ok
  /\ hd.last.shared
  /\ Len(hd.line) = 2
  /\ hd.line[1].q.qtype = "unquoted"
  /\ hd.line[2].q.qtype = "single"
  /\ Len(hd.docs) = 1

DocEntry(d) == [end |-> d.end, literal |-> d.literal, modifiers |-> d.modifiers,
                regex |-> d.regex, regex_flags |-> d.regex_flags]

\* C36: the here-documents the execute pass has built from the redirects it
\* has parsed so far are the first of those the pre-parse built for the
\* line, entry by entry (end marker, literal or not, modifiers, regex
\* introducer and flags); at the newline they are all of them, a repeated
\* marker being one entry and an entry whose redirects were all overridden
\* still being there; so both passes parse the same number of bodies.
C36_SameDocs ==
  hd.phase \in {"exec", "done"} =>
    /\ Len(hd.xdocs) <= Len(hd.docs)
    /\ \A i \in 1..Len(hd.xdocs) : DocEntry(hd.xdocs[i]) = hd.docs[i]
    /\ hd.k > Len(hd.line) => Len(hd.xdocs) = Len(hd.docs)
    /\ hd.bodies = Len(hd.docs)

\* 2>>~"/E/" 2>>F was parsed in both passes: two here-documents, a regex
\* one with expansions and a literal one, the first with no redirect left.
C36_Witness ==
  /\ hd.phase = "done"
  /\ Len(hd.line) = 2
  /\ hd.line[1].fd = 2
  /\ hd.line[2].fd = 2
  /\ hd.line[1].mod = <<"~">>
  /\ hd.line[1].q.qtype = "double"
  /\ hd.line[2].val = <<"F">>
  /\ Len(hd.docs) = 2
  /\ Len(hd.xdocs) = 2
  /\ hd.xdocs[1].regex = "/"
  /\ ~hd.xdocs[1].literal
  /\ hd.xdocs[2].literal
  /\ hd.bodies = 2

\* The redirects of descriptor fd among those the execute pass has parsed.
ParsedOf(fd) == {i \in 1..(hd.k - 1) : hd.line[i].fd = fd}
LastOf(fd) == CHOOSE i \in ParsedOf(fd) : \A j \in ParsedOf(fd) : j <= i

\* The descriptors whose last parsed redirect has the end marker e.
LiveNow(e) == {fd \in 0..2 : ParsedOf(fd) # {} /\ EndOf(hd.line[LastOf(fd)]) = e}

\* C37: in the execute pass the redirect of a descriptor is the last one
\* parsed for it: before the newline it has the type of that one, after the
\* here-documents it holds the body of that one's end marker or refers to
\* the redirect that does; a here-document is referred to by exactly the
\* descriptors whose last redirect has its end marker, each once; and a
\* here-document with no reference left has its body parsed while no
\* redirect holds it.
C37_LastWins ==
  hd.phase \in {"exec", "done"} =>
    /\ \A fd \in 0..2 :
         IF ParsedOf(fd) = {} THEN hd.c[fd] = NoRedirect
         ELSE LET it == hd.line[LastOf(fd)]
                  r == hd.c[fd]
              IN IF hd.phase = "exec" THEN r.type = HdType(it.mod) /\ r.doc = 0
                 ELSE \/ /\ r.type = HdType(it.mod)
                         /\ r.doc # 0
                         /\ hd.xdocs[r.doc].end = EndOf(it)
                      \/ /\ r.type = "here_doc_ref"
                         /\ r.ref \in 0..2 \ {fd}
                         /\ hd.c[r.ref].type = HdType(it.mod)
                         /\ hd.c[r.ref].doc # 0
                         /\ hd.xdocs[hd.c[r.ref].doc].end = EndOf(it)
    /\ \A h \in 1..Len(hd.xdocs) :
         LET rs == hd.xdocs[h].redirects
         IN /\ {rs[j] : j \in 1..Len(rs)} = LiveNow(hd.xdocs[h].end)
            /\ Len(rs) = Cardinality(LiveNow(hd.xdocs[h].end))
            /\ (hd.phase = "done" /\ rs = <<>>) =>
                 /\ h <= hd.bodies
                 /\ \A fd \in 0..2 : hd.c[fd].doc # h

\* >>E >>F was parsed with the two bodies: the here-document E has no
\* redirect left and stdout holds the body of F.
C37_Witness ==
  /\ hd.phase = "done"
  /\ Len(hd.line) = 2
  /\ hd.line[1].fd = 1
  /\ hd.line[2].fd = 1
  /\ hd.line[1].val = <<"E">>
  /\ hd.line[2].val = <<"F">>
  /\ hd.xdocs[1].redirects = <<>>
  /\ hd.xdocs[2].redirects = <<1>>
  /\ hd.c[1].type = "here_doc_literal"
  /\ hd.c[1].doc = 2
  /\ hd.bodies = 2

(***************************************************************************)
(* parse_command_expr in the execute pass (libbuild2/script/parser.cxx):   *)
(* the commands of one line, their pipes and the redirects of stdin,       *)
(* stdout and stderr.  A token is a word, a redirect operator, one of |,   *)
(* || and &&, or the newline; the outer loop over the tokens of the line   *)
(* and the inner loop over a re-lexed expansion treat them alike.          *)
(***************************************************************************)
MaxToks == 6      \* tokens of the line before the newline

CeWords == {"a", "0", "1", "2"}
CeRedirects == {"in_null", "out_null", "out_merge"}
CeOperators == {"pipe", "log_or", "log_and"}

NoCommand == [in |-> "none", out |-> "none", err |-> "none"]

\* check_command (l, last): nothing to report.
check_commandNoMerge(c, last) == last \/ c.out = "none"
check_command(c, last) ==
  /\ ~(c.out = "merge" /\ c.err = "merge")
  /\ last \/ c.out = "none"

\* stoul (s, &n) with n == s.size () && fd <= 2; 3 stands for a failure.
CeFd(w) == CASE w = "0" -> 0 [] w = "1" -> 1 [] w = "2" -> 2 [] OTHER -> 3

\* The check of stdin in parse_redirect: nothing to report.
StdinFree(pipe) == pipe = <<>>

CeInit ==
  ce = [phase |-> "run", expr |-> << <<>> >>, c |-> NoCommand, p |-> "program",
        args |-> <<>>, n |-> 0, what |-> ""]

InitCmdExpr == CeInit /\ TsIdle /\ ApIdle /\ PmIdle /\ ShIdle /\ PtIdle /\ RcIdle /\ ScIdle
               /\ VrIdle /\ HdIdle /\ PqIdle /\ MkIdle /\ DbIdle /\ WIdle

CeFail(what) ==
  ce' = [ce EXCEPT !.phase = "fail", !.what = what, !.n = @ + 1]

\* A word: add_word.
CeWord(w) ==
  /\ ce.phase = "run"
  /\ ce.n < MaxToks
  /\ CASE ce.p = "none" ->
            ce' = [ce EXCEPT !.args = Append(@, w), !.n = @ + 1]
       [] ce.p = "program" ->
            ce' = [ce EXCEPT !.p = "none", !.n = @ + 1]
       [] ce.p = "out_merge" ->
            IF CeFd(w) = 2
              THEN ce' = [ce EXCEPT !.p = "none", !.n = @ + 1]
              ELSE CeFail("stdout merge redirect file descriptor must be 2")
       [] ce.p = "err_merge" ->
            IF CeFd(w) = 1
              THEN ce' = [ce EXCEPT !.p = "none", !.n = @ + 1]
              ELSE CeFail("stderr merge redirect file descriptor must be 1")
  /\ UNCHANGED <<zVars, vr, hd, pq, mk, db>>

\* A redirect operator: check_pending and parse_redirect.
CeRedirect(tt, separated) ==
  LET given == IF separated THEN 3 ELSE CeFd(ce.args[Len(ce.args)])
      args == IF separated THEN ce.args ELSE SubSeq(ce.args, 1, Len(ce.args) - 1)
      isIn == tt = "in_null"
      fd == IF given # 3 THEN given ELSE IF isIn THEN 0 ELSE 1
      rt == IF tt = "out_merge" THEN "merge" ELSE "null"
      pipe == ce.expr[Len(ce.expr)]
  IN /\ ce.phase = "run"
     /\ ce.n < MaxToks
     /\ IF ce.p # "none" THEN CeFail("missing " \o ce.p)
        ELSE IF ~separated /\ ce.args = <<>> THEN CeFail("missing redirect file descriptor")
        ELSE IF ~separated /\ given = 3 THEN CeFail("invalid redirect file descriptor")
        ELSE IF isIn /\ fd # 0 THEN CeFail("invalid in redirect file descriptor")
        ELSE IF isIn /\ ~StdinFree(pipe) THEN CeFail("stdin is both piped and redirected")
        ELSE IF ~isIn /\ fd = 0 THEN CeFail("invalid out redirect file descriptor")
        ELSE ce' = [ce EXCEPT !.c = [in |-> IF fd = 0 THEN rt ELSE @.in,
                                     out |-> IF fd = 1 THEN rt ELSE @.out,
                                     err |-> IF fd = 2 THEN rt ELSE @.err],
                              !.p = IF rt # "merge" THEN "none"
                                    ELSE IF fd = 1 THEN "out_merge" ELSE "err_merge",
                              !.args = args,
                              !.n = @ + 1]
     /\ UNCHANGED <<zVars, vr, hd, pq, mk, db>>

\* One of |, || and &&: check_pending, check_command, and the command goes
\* into the pipe.
CeOperator(op) ==
  LET pipe == Append(ce.expr[Len(ce.expr)], ce.c)
      expr == [ce.expr EXCEPT ![Len(ce.expr)] = pipe]
  IN /\ ce.phase = "run"
     /\ ce.n < MaxToks
     /\ IF ce.p # "none" THEN CeFail("missing " \o ce.p)
        ELSE IF ~check_command(ce.c, op # "pipe")
          THEN CeFail(IF ce.c.out = "merge" /\ ce.c.err = "merge"
                        THEN "stdout and stderr redirected to each other"
                        ELSE "stdout is both redirected and piped")
        ELSE ce' = [ce EXCEPT !.expr = IF op = "pipe" THEN expr ELSE Append(expr, <<>>),
                              !.c = NoCommand,
                              !.p = "program",
                              !.args = <<>>,
                              !.n = @ + 1]
     /\ UNCHANGED <<zVars, vr, hd, pq, mk, db>>

\* The newline: check_pending, check_command (l, true), the last command
\* goes into the pipe and the expression is returned.
CeNewline ==
  /\ ce.phase = "run"
  /\ IF ce.p # "none" THEN CeFail("missing " \o ce.p)
     ELSE IF ~check_command(ce.c, TRUE)
       THEN CeFail("stdout and stderr redirected to each other")
     ELSE ce' = [ce EXCEPT !.phase = "done",
                           !.expr[Len(ce.expr)] = Append(@, ce.c),
                           !.c = NoCommand,
                           !.args = <<>>,
                           !.n = @ + 1]
  /\ UNCHANGED <<zVars, vr, hd, pq, mk, db>>

NextCmdExpr ==
  \/ \E w \in CeWords : CeWord(w)
  \/ \E tt \in CeRedirects, separated \in BOOLEAN : CeRedirect(tt, separated)
  \/ \E op \in CeOperators : CeOperator(op)
  \/ CeNewline

SpecCmdExpr == InitCmdExpr /\ [][NextCmdExpr]_vars

(***************************************************************************)
(* Properties of the returned command expression.                          *)
(***************************************************************************)
\* C25: an expression that parse_command_expr returns has no command with
\* stdout and stderr both merge redirects and no command after the first of
\* its pipe with a stdin redirect; a line is rejected as "stdout and stderr
\* redirected to each other" only when the command at hand has both merge
\* redirects, and as "stdin is both piped and redirected" only in a command
\* after the first of its pipe.
C25_NoMergeLoopNoPipedStdin ==
  /\ ce.phase = "done" =>
       \A i \in 1..Len(ce.expr) : \A j \in 1..Len(ce.expr[i]) :
         /\ ~(ce.expr[i][j].out = "merge" /\ ce.expr[i][j].err = "merge")
         /\ j > 1 => ce.expr[i][j].in = "none"
  /\ (ce.phase = "run" /\ ce.expr[Len(ce.expr)] # <<>>) => ce.c.in = "none"
  /\ (ce.phase = "fail" /\ ce.what = "stdout and stderr redirected to each other") =>
       (ce.c.out = "merge" /\ ce.c.err = "merge")
  /\ (ce.phase = "fail" /\ ce.what = "stdin is both piped and redirected") =>
       ce.expr[Len(ce.expr)] # <<>>

\* A line of six tokens such as a 2>&1 >&2 was rejected at its newline.
C25_Witness ==
  /\ ce.phase = "fail"
  /\ ce.what = "stdout and stderr redirected to each other"
  /\ ce.n = 7
  /\ ce.expr = << <<>> >>

(***************************************************************************)
(* compile::apply up to and around the prerequisite loop                   *)
(* (build2/cxx/compile.cxx): the output directory, the static              *)
(* prerequisites, and for perform_update the order of execute_direct on    *)
(* the directory, the depdb and the header extraction.                     *)
(***************************************************************************)
MaxPrereqs == 2   \* static prerequisites of the obj target

PqActions == {"perform_update", "perform_clean", "configure_update"}

\* a.operation (): update for perform_update and configure_update.
PqOperation(a) == IF a = "perform_clean" THEN "clean" ELSE "update"

\* A prerequisite: its target type; for a library whether it is imported
\* (p.proj () != nullptr) and found by link::search_library; for the others
\* whether its directory is in the project (pt.dir.sub (rs.out_path ())).
PqLibs == [type : {"lib", "liba", "libs"}, proj : BOOLEAN, found : BOOLEAN, sub : {TRUE}]
PqOthers == [type : {"cxx", "hxx"}, proj : {FALSE}, found : {FALSE}, sub : BOOLEAN]
PqItems == {x \in PqLibs : x.found => x.proj} \cup PqOthers

\* p.is_a<lib> () || p.is_a<liba> () || p.is_a<libs> ()
IsLibNever(x) == FALSE
IsLib(x) == x.type \in {"lib", "liba", "libs"}

\* The library is matched: it is not imported, or search_library finds nothing.
MatchOnlyNeeded(a, x) ==
  PqOperation(a) = "update" /\ (~x.proj \/ ~x.found)

\* The prerequisite is ignored when cleaning.
PqSkipped(a, x) == PqOperation(a) = "clean" /\ ~x.sub

\* match () found a C++ source among the prerequisites.
PqLists == {l \in UNION {[1..n -> PqItems] : n \in 1..MaxPrereqs} :
              \E i \in 1..Len(l) : l[i].type = "cxx"}

PqInit ==
  \E a \in PqActions, l \in PqLists :
    pq = [pc |-> "fsdir", a |-> a, ps |-> l, i |-> 1, dir |-> FALSE,
          pts |-> <<>>, m |-> [k \in 1..Len(l) |-> "none"], log |-> <<>>,
          executed |-> {}]

InitPrereq == PqInit /\ TsIdle /\ ApIdle /\ PmIdle /\ ShIdle /\ PtIdle /\ RcIdle /\ ScIdle
              /\ VrIdle /\ HdIdle /\ CeIdle /\ MkIdle /\ DbIdle /\ WIdle

\* fsdir* dir (inject_fsdir (a, t)): an injected directory is matched and is
\* the first of prerequisite_targets (index 0 stands for it).
InjectFsdir(injected) ==
  /\ pq.pc = "fsdir"
  /\ pq' = [pq EXCEPT !.pc = "loop", !.dir = injected,
                      !.pts = IF injected THEN <<0>> ELSE <<>>]
  /\ UNCHANGED <<zVars, vr, hd, ce, mk, db>>

\* One iteration of the loop over group_prerequisite_members.
PrereqStep ==
  LET x == pq.ps[pq.i]
  IN /\ pq.pc = "loop"
     /\ pq.i <= Len(pq.ps)
     /\ pq' = IF IsLib(x)
                THEN [pq EXCEPT !.i = @ + 1,
                                !.m[pq.i] = IF MatchOnlyNeeded(pq.a, x)
                                              THEN "match_only" ELSE "none"]
              ELSE IF PqSkipped(pq.a, x) THEN [pq EXCEPT !.i = @ + 1]
              ELSE [pq EXCEPT !.i = @ + 1,
                              !.m[pq.i] = "match",
                              !.pts = Append(@, pq.i)]
     /\ UNCHANGED <<zVars, vr, hd, ce, mk, db>>

\* The end of the loop: a == perform_update_id or the recipe is returned.
PrereqsDone ==
  /\ pq.pc = "loop"
  /\ pq.i > Len(pq.ps)
  /\ pq' = [pq EXCEPT !.pc = IF pq.a = "perform_update" THEN "dir" ELSE "return"]
  /\ UNCHANGED <<zVars, vr, hd, ce, mk, db>>

\* if (dir != nullptr) execute_direct (a, *dir); and then depdb dd (...) with
\* the four expect calls.
DirThenDepdbLate(dir) ==
  <<"depdb">> \o (IF dir THEN <<"execute_direct dir">> ELSE <<>>)
DirThenDepdb(dir) ==
  (IF dir THEN <<"execute_direct dir">> ELSE <<>>) \o <<"depdb">>

ExecuteDirAndOpen ==
  /\ pq.pc = "dir"
  /\ pq' = [pq EXCEPT !.pc = "inject", !.log = @ \o DirThenDepdb(pq.dir)]
  /\ UNCHANGED <<zVars, vr, hd, ce, mk, db>>

\* inject_prerequisites: with a usable cache no compiler is run, otherwise
\* the headers are extracted by running it; then dd.close ().
InjectAndClose(run) ==
  /\ pq.pc = "inject"
  /\ pq' = [pq EXCEPT !.pc = "return",
                      !.log = @ \o (IF run THEN <<"compiler">> ELSE <<>>) \o <<"close">>]
  /\ UNCHANGED <<zVars, vr, hd, ce, mk, db>>

\* The recipe that apply returned is executed: for perform_update and
\* perform_clean the members of prerequisite_targets are executed before the
\* target.
PqRecipe ==
  /\ pq.pc = "return"
  /\ pq' = [pq EXCEPT !.pc = "executed",
                      !.executed = IF pq.a = "configure_update" THEN {}
                                   ELSE {pq.pts[k] : k \in 1..Len(pq.pts)}]
  /\ UNCHANGED <<zVars, vr, hd, ce, mk, db>>

NextPrereq ==
  \/ \E injected \in BOOLEAN : InjectFsdir(injected)
  \/ PrereqStep
  \/ PrereqsDone
  \/ ExecuteDirAndOpen
  \/ \E run \in BOOLEAN : InjectAndClose(run)
  \/ PqRecipe

SpecPrereq == InitPrereq /\ [][NextPrereq]_vars

(***************************************************************************)
(* Properties of the prerequisite loop.                                    *)
(***************************************************************************)
InPts(k) == \E j \in 1..Len(pq.pts) : pq.pts[j] = k

\* C27: a lib, liba or libs prerequisite is never in prerequisite_targets and
\* never executed before the target; it is matched match-only, and only for
\* an update operation; every other prerequisite the loop has passed is
\* matched and in prerequisite_targets unless it was skipped (cleaning, not
\* in the project).
C27_LibsMatchOnly ==
  \A k \in 1..Len(pq.ps) :
    IF pq.ps[k].type \in {"lib", "liba", "libs"}
      THEN /\ ~InPts(k)
           /\ k \notin pq.executed
           /\ pq.m[k] \in {"none", "match_only"}
           /\ pq.m[k] = "match_only" => pq.a \in {"perform_update", "configure_update"}
      ELSE k < pq.i =>
             IF pq.a = "perform_clean" /\ ~pq.ps[k].sub
               THEN pq.m[k] = "none" /\ ~InPts(k)
               ELSE pq.m[k] = "match" /\ InPts(k)

\* The recipe of an update ran with a library first among the
\* prerequisites: the library was matched only, the source after it was
\* executed.
C27_Witness ==
  /\ pq.pc = "executed"
  /\ pq.a = "perform_update"
  /\ Len(pq.ps) = 2
  /\ pq.ps[1].type = "lib"
  /\ pq.m[1] = "match_only"
  /\ pq.ps[2].type = "cxx"
  /\ pq.executed = {0, 2}

\* The position of an event in the log, 0 if it is not there.
LogPos(e) ==
  LET I == {i \in 1..Len(pq.log) : pq.log[i] = e}
  IN IF I = {} THEN 0 ELSE CHOOSE i \in I : \A j \in I : i <= j

\* C28: for perform_update with an injected output directory, once the
\* depdb is open the directory was executed, before the depdb was opened
\* and before any compiler run; without an injected directory or for another
\* action nothing is executed during apply.
C28_DirExecutedFirst ==
  /\ (pq.a = "perform_update" /\ pq.dir /\ LogPos("depdb") # 0) =>
       /\ LogPos("execute_direct dir") = 1
       /\ LogPos("depdb") = 2
       /\ LogPos("compiler") \in {0, 3}
  /\ (pq.a # "perform_update" \/ ~pq.dir) => LogPos("execute_direct dir") = 0
  /\ pq.a # "perform_update" => pq.log = <<>>

\* apply for perform_update returned after a compiler run, the injected
\* directory executed first.
C28_Witness ==
  /\ pq.pc = "return"
  /\ pq.a = "perform_update"
  /\ pq.dir
  /\ pq.log = <<"execute_direct dir", "depdb", "compiler", "close">>

(***************************************************************************)
(* next_make and the loop of inject_prerequisites that calls it            *)
(* (build2/cxx/compile.cxx): one line of the compiler's make dependency    *)
(* declaration, a sequence of characters, and the position in it.          *)
(***************************************************************************)
MaxNames == 2     \* names on one line
NameLen == 2      \* characters of one name

MkChars == {"a", "$", "\\", " "}
MkNames == UNION {[1..n -> MkChars] : n \in 1..NameLen}
MkLists == UNION {[1..n -> MkNames] : n \in 1..MaxNames}

\* A name as it is written in Make rule syntax: the escape sequences that
\* next_make recognises.
RECURSIVE MakeEscape(_)
MakeEscape(name) ==
  IF name = <<>> THEN <<>>
  ELSE (CASE Head(name) = "$"  -> <<"$", "$">>
          [] Head(name) = "\\" -> <<"\\", "\\">>
          [] Head(name) = " "  -> <<"\\", " ">>
          [] OTHER             -> <<Head(name)>>) \o MakeEscape(Tail(name))

Spaces(k) == [i \in 1..k |-> " "]

RECURSIVE JoinNames(_, _)
JoinNames(ns, sep) ==
  IF Len(ns) = 1 THEN MakeEscape(ns[1])
  ELSE MakeEscape(ns[1]) \o Spaces(sep) \o JoinNames(Tail(ns), sep)

\* The end of a line: nothing, a space, or the continuation.
MkEnds == {<<>>, <<" ">>, <<" ", "\\">>}

\* l[p], p counted from zero as in the source.
MkAt(l, p) == l[p + 1]

\* for (; p != n && l[p] == ' '; p++) ;
RECURSIVE SkipSpaces(_, _)
SkipSpaces(l, p) ==
  IF p # Len(l) /\ MkAt(l, p) = " " THEN SkipSpaces(l, p + 1) ELSE p

\* What follows a backslash is "escapable".
EscapableNone(c) == FALSE
Escapable(c) == c \in {"\\", " "}

\* The scan of one prerequisite: the loop with the escape sequences.
RECURSIVE ScanName(_, _, _)
ScanName(l, p, r) ==
  IF p = Len(l) \/ MkAt(l, p) = " " THEN [r |-> r, p |-> p]
  ELSE LET c == MkAt(l, p)
           esc == /\ p + 1 # Len(l)
                  /\ \/ c = "$" /\ MkAt(l, p + 1) = "$"
                     \/ c = "\\" /\ Escapable(MkAt(l, p + 1))
       IN IF esc THEN ScanName(l, p + 2, Append(r, MkAt(l, p + 1)))
                 ELSE ScanName(l, p + 1, Append(r, c))

\* if (p == n - 1 && l[p] == '\\') p++;
SkipFinalNever(l, p) == p
SkipFinal(l, p) ==
  IF p = Len(l) - 1 /\ MkAt(l, p) = "\\" THEN p + 1 ELSE p

next_make(l, p) ==
  LET s == ScanName(l, SkipSpaces(l, p), <<>>)
  IN [r |-> s.r, p |-> SkipFinal(l, SkipSpaces(l, s.p))]

\* A line of the declaration: the first one starts with "^: " and the
\* source file, a line after "^: \" starts with the source file, any other
\* line holds prerequisites only.
MkKinds == {"first", "second", "other"}

MkInit ==
  \E names \in MkLists, kind \in MkKinds, sep \in 1..2, end \in MkEnds :
    LET body == Spaces(sep - 1) \o JoinNames(names, sep) \o end
    IN mk = [l |-> IF kind = "first" THEN <<"^", ":", " ">> \o body ELSE body,
             names |-> names,
             pos |-> IF kind = "first" THEN 3 ELSE 0,
             src |-> kind # "other",
             second |-> kind # "other",
             out |-> <<>>]

InitMake == MkInit /\ TsIdle /\ ApIdle /\ PmIdle /\ ShIdle /\ PtIdle /\ RcIdle /\ ScIdle
            /\ VrIdle /\ HdIdle /\ CeIdle /\ PqIdle /\ DbIdle /\ WIdle

\* if (second) { second = false; next_make (l, pos); }
SkipSource ==
  /\ mk.second
  /\ mk' = [mk EXCEPT !.second = FALSE, !.pos = next_make(mk.l, mk.pos).p]
  /\ UNCHANGED <<zVars, vr, hd, ce, pq, db>>

\* while (pos != l.size ()) { string f (next_make (l, pos)); add (f); }
AddPrerequisite ==
  /\ ~mk.second
  /\ mk.pos # Len(mk.l)
  /\ LET m == next_make(mk.l, mk.pos)
     IN mk' = [mk EXCEPT !.pos = m.p, !.out = Append(@, m.r)]
  /\ UNCHANGED <<zVars, vr, hd, ce, pq, db>>

NextMake ==
  \/ SkipSource
  \/ AddPrerequisite

SpecMake == InitMake /\ [][NextMake]_vars

(***************************************************************************)
(* Properties of next_make.                                                *)
(***************************************************************************)
\* The prerequisites written on the line: all names but the source file.
MkWritten == IF mk.src THEN Tail(mk.names) ELSE mk.names

\* C29: the names that the calls of next_make have returned are the first
\* prerequisites written on the line, unescaped and in order; when the
\* position has reached the end of the line they are all of them, each
\* once, and a continuation at the end of the line is none of them.
C29_NextMake ==
  /\ Len(mk.out) <= Len(MkWritten)
  /\ mk.out = SubSeq(MkWritten, 1, Len(mk.out))
  /\ (~mk.second /\ mk.pos = Len(mk.l)) => mk.out = MkWritten
  /\ (~mk.second /\ mk.pos # Len(mk.l)) => Len(mk.out) < Len(MkWritten)

\* A line with a continuation was read to its end: the two names returned
\* hold a space, a backslash and a dollar.
C29_Witness ==
  /\ ~mk.src
  /\ mk.pos = Len(mk.l)
  /\ mk.l[Len(mk.l)] = "\\"
  /\ mk.out = << <<"a", " ">>, <<"\\", "$">> >>

(***************************************************************************)
(* The depdb as compile::apply uses it (build2/cxx/compile.cxx): a file of *)
(* lines is opened, a sequence of expect calls is made on it, and it is    *)
(* closed.                                                                 *)
(***************************************************************************)
MaxDbLines == 3   \* lines of the file before it is opened
MaxDbCalls == 3   \* expect calls before the close

DbLines == {HdrLine(h) : h \in 1..NumHeaders}
DbContents == UNION {[1..n -> DbLines] : n \in 0..MaxDbLines}

\* depdb dd (t.path () + ".d")
DbInit ==
  \E f \in DbContents :
    db = [file |-> f, orig |-> f, d |-> DdOpen(f, 0), calls |-> <<>>, modes |-> <<>>]

InitDepdb == DbInit /\ TsIdle /\ ApIdle /\ PmIdle /\ ShIdle /\ PtIdle /\ RcIdle /\ ScIdle
             /\ VrIdle /\ HdIdle /\ CeIdle /\ PqIdle /\ MkIdle /\ WIdle

\* dd.expect (line): what is written reaches the file.
DbExpect(v) ==
  /\ db.d.state # "closed"
  /\ Len(db.calls) < MaxDbCalls
  /\ LET e == DdExpect(db.d, v)
     IN db' = [db EXCEPT !.d = e.d,
                         !.file = IF e.mismatch THEN e.d.lines ELSE @,
                         !.calls = Append(@, v),
                         !.modes = Append(@, e.d.state)]
  /\ UNCHANGED <<zVars, vr, hd, ce, pq, mk>>

\* dd.close ()
DbClose ==
  /\ db.d.state # "closed"
  /\ db' = [db EXCEPT !.d = DdClose(db.d),
                      !.file = IF DdWriting(db.d) THEN db.d.lines ELSE @]
  /\ UNCHANGED <<zVars, vr, hd, ce, pq, mk>>

NextDepdb ==
  \/ \E v \in DbLines : DbExpect(v)
  \/ DbClose

SpecDepdb == InitDepdb /\ [][NextDepdb]_vars

(***************************************************************************)
(* Properties of the depdb.                                                *)
(***************************************************************************)
\* The number of expect calls that matched the file from its first line on.
DbMatched ==
  LET K == {k \in 0..Len(db.calls) :
              /\ k <= Len(db.orig)
              /\ \A j \in 1..k : db.calls[j] = db.orig[j]}
  IN CHOOSE k \in K : \A j \in K : j <= k

\* C30: after the close of a depdb opened on L1, L2, L3 and expected L1 and
\* then L2' other than L2, the file holds exactly L1 and L2'; the depdb stayed
\* in read mode over the matching call and was in write mode after the other.
\* In general the file is unchanged when every call matched, and holds
\* exactly the expected lines when one did not.
C30_MismatchTruncates ==
  /\ (/\ db.d.state = "closed"
      /\ Len(db.orig) = 3
      /\ Len(db.calls) = 2
      /\ db.calls[1] = db.orig[1]
      /\ db.calls[2] # db.orig[2]) =>
       /\ db.file = <<db.orig[1], db.calls[2]>>
       /\ db.modes = <<"read", "write">>
  /\ db.d.state = "closed" =>
       /\ db.file = IF DbMatched = Len(db.calls) THEN db.orig ELSE db.calls
       /\ \A k \in 1..Len(db.modes) :
            db.modes[k] = IF k <= DbMatched THEN "read" ELSE "write"

\* The depdb of the claim was closed: three lines, a matching expect and a
\* mismatching one, two lines left.
C30_Witness ==
  /\ db.d.state = "closed"
  /\ db.orig = <<HdrLine(1), HdrLine(2), HdrLine(1)>>
  /\ db.calls = <<HdrLine(1), HdrLine(1)>>
  /\ db.file = <<HdrLine(1), HdrLine(1)>>
  /\ db.modes = <<"read", "write">>

(***************************************************************************)
(* inject_prerequisites, the header-extraction loop step by step           *)
(* (build2/cxx/compile.cxx): the cached pass, the compiler passes with     *)
(* skip and restart, and the steps of add for each header.                 *)
(***************************************************************************)
MaxReports == 2   \* header lines of one compiler run

IjCids == {"msvc", "gcc"}

\* The steps of add in the order of its statements; dd.expect only for a
\* header that came from the compiler.
AddStepsExpectFirst(cache) ==
  IF cache THEN <<"search", "match", "update", "push">>
           ELSE <<"search", "match", "expect", "update", "push">>
AddSteps(cache) ==
  IF cache THEN <<"search", "match", "update", "push">>
           ELSE <<"search", "match", "update", "expect", "push">>

\* No header is in add.
NoAdd == [h |-> 0, cache |-> FALSE, rel |-> FALSE, log |-> <<>>, os |-> "none",
          ns |-> "none", restart |-> FALSE, n0 |-> 0, dd0 |-> <<>>, failed |-> FALSE]

\* The statement of add that is next for the header in it.
AddNext(c) == AddSteps(c.cache)[Len(c.log) + 1]

\* The timestamp add passes to update, and the mtimes the header can have.
AddTimestamp(d, cache) == IF cache THEN d.mtime ELSE Unknown
IjMtimes(ts) == IF ts = Unknown THEN {Unknown} ELSE {ts - 1, ts, ts + 1}

\* update (pt, ts): the state after and the value returned, for every result
\* of execute_direct and every mtime of the header.
IjUpdates(os, ts) ==
  {[ns |-> ns, restart |-> UpdateRestart(os, ns, ts, mt)] :
     ns \in (IF os = "unchanged" THEN {os} ELSE ExecResults(os)), mt \in IjMtimes(ts)}

\* assert (!good_error || restart)
AssertGoodError(good_error, restart) == ~good_error \/ restart

IjInit ==
  \E cid \in IjCids, part \in CachedParts, reading \in BOOLEAN, src \in BOOLEAN :
    /\ ~reading => (part = <<>> /\ src)
    /\ ij = [cid |-> cid, pc |-> "loop",
             dd |-> IF reading THEN (IF src THEN DdOpen(part, 2) ELSE DdTouch(DdOpen(part, 2)))
                    ELSE DdChange(DdOpen(part, 2)),
             cache |-> reading /\ src,
             restart |-> TRUE, skip_count |-> 0, skip |-> 0, n0 |-> 0, pass |-> "none",
             good_error |-> FALSE,
             hs |-> [h \in Headers |-> "none"],
             pts |-> <<>>, run |-> <<>>, same |-> TRUE, launches |-> 0,
             cur |-> NoAdd]

InitInject == IjInit /\ UIdle /\ HbIdle

\* The end of one iteration of for (bool restart (true); restart; cache = false).
IjEndBody(j, r) == [j EXCEPT !.pc = "loop", !.cache = FALSE, !.restart = r]

\* add (f, cache) is entered for header h.
IjEnter(j, h, cache, rel) ==
  [j EXCEPT !.pc = "add",
            !.cur = [NoAdd EXCEPT !.h = h, !.cache = cache, !.rel = rel,
                                  !.n0 = Len(j.pts), !.dd0 = j.dd]]

\* The loop condition holds and cache is set: the cached pass starts.
IjCached ==
  /\ ij.pc = "loop"
  /\ ij.restart
  /\ ij.cache
  /\ ij' = [ij EXCEPT !.pc = "cached", !.restart = FALSE, !.pass = "cached"]
  /\ UNCHANGED <<uVars, hb>>

\* One turn of while (dd.more ()).
IjCacheRead ==
  /\ ij.pc = "cached"
  /\ IF ~DdMore(ij.dd) THEN ij' = IjEndBody(ij, FALSE)
     ELSE LET r == DdRead(ij.dd)
          IN IF r.line = NoLine
               THEN ij' = IjEndBody([ij EXCEPT !.dd = r.d], TRUE)
               ELSE ij' = IjEnter([ij EXCEPT !.dd = r.d], r.line.n, TRUE, FALSE)
  /\ UNCHANGED <<uVars, hb>>

\* The loop condition holds and cache is not set: the compiler is started,
\* size_t skip (skip_count).
IjLaunch ==
  /\ ij.pc = "loop"
  /\ ij.restart
  /\ ~ij.cache
  /\ ij' = [ij EXCEPT !.pc = "cc", !.restart = FALSE, !.pass = "cc",
                      !.skip = ij.skip_count, !.n0 = ij.skip_count,
                      !.good_error = FALSE, !.run = <<>>,
                      !.launches = ij.launches + 1]
  /\ UNCHANGED <<uVars, hb>>

\* The compiler reports header h on its next line; rel: the header does not
\* exist (a C1083 line of VC, a relative name of GCC with -MG).  The line is
\* skipped or the header is handed to add.
IjReport(h, rel) ==
  /\ ij.pc = "cc"
  /\ ~ij.restart
  /\ Len(ij.run) < MaxReports
  /\ LET good == ij.good_error \/ (ij.cid = "msvc" /\ rel)
         j == [ij EXCEPT !.run = Append(@, h), !.good_error = good]
     IN IF ij.skip # 0
          THEN IF ij.cid = "msvc" /\ good
                 THEN ij' = [j EXCEPT !.pc = "assert"]
                 ELSE ij' = [j EXCEPT !.skip = @ - 1,
                                      !.same = @ /\ ~rel
                                                 /\ h = ij.pts[ij.skip_count - ij.skip + 1]]
          ELSE ij' = IjEnter(j, h, FALSE, rel)
  /\ UNCHANGED <<uVars, hb>>

\* The first statements of add up to search (): a header that does not exist
\* is mapped to a project with the prefix map, which can fail.
AddSearch(ok) ==
  /\ ij.pc = "add"
  /\ AddNext(ij.cur) = "search"
  /\ ok \/ ij.cur.rel
  /\ ij' = IF ok THEN [ij EXCEPT !.cur.log = <<"search">>]
                 ELSE [ij EXCEPT !.pc = "failed", !.cur.failed = TRUE]
  /\ UNCHANGED <<uVars, hb>>

\* build2::match (a, pt): fails when no rule matches; st is the state of a
\* target that this call sees for the first time.
AddMatch(ok, st) ==
  /\ ij.pc = "add"
  /\ AddNext(ij.cur) = "match"
  /\ ij.hs[ij.cur.h] # "none" => st = ij.hs[ij.cur.h]
  /\ ij' = IF ok THEN [ij EXCEPT !.cur.log = Append(@, "match"), !.hs[ij.cur.h] = st]
                 ELSE [ij EXCEPT !.pc = "failed", !.cur.failed = TRUE]
  /\ UNCHANGED <<uVars, hb>>

\* bool restart (update (pt, cache ? dd.mtime () : timestamp_unknown));
\* execute_direct can fail.
AddUpdate(ok) ==
  /\ ij.pc = "add"
  /\ AddNext(ij.cur) = "update"
  /\ LET os == ij.hs[ij.cur.h]
     IN IF ~ok
          THEN /\ os = "unknown"
               /\ ij' = [ij EXCEPT !.pc = "failed", !.cur.failed = TRUE]
          ELSE \E u \in IjUpdates(os, AddTimestamp(ij.dd, ij.cur.cache)) :
                 ij' = [ij EXCEPT !.cur.log = Append(@, "update"),
                                  !.cur.os = os, !.cur.ns = u.ns,
                                  !.cur.restart = u.restart,
                                  !.hs[ij.cur.h] = u.ns]
  /\ UNCHANGED <<uVars, hb>>

\* if (!cache) dd.expect (pt.path ());
AddExpect ==
  /\ ij.pc = "add"
  /\ AddNext(ij.cur) = "expect"
  /\ ij' = [ij EXCEPT !.cur.log = Append(@, "expect"),
                      !.dd = AddToDb(ij.dd, ij.cur.h, FALSE)]
  /\ UNCHANGED <<uVars, hb>>

\* t.prerequisite_targets.push_back (&pt); return restart; and what the
\* caller does with the result: skip_count++, dd.touch () on the cached
\* pass, the assertion on the VC pass.
AddPush ==
  /\ ij.pc = "add"
  /\ AddNext(ij.cur) = "push"
  /\ LET r == ij.cur.restart
         j == [ij EXCEPT !.cur.log = Append(@, "push"),
                         !.pts = Append(@, ij.cur.h),
                         !.skip_count = NextSkipCount(@),
                         !.restart = r]
     IN IF ij.cur.cache
          THEN ij' = IF r THEN IjEndBody([j EXCEPT !.dd = DdTouch(@)], TRUE)
                          ELSE [j EXCEPT !.pc = "cached"]
          ELSE ij' = IF ij.cid = "msvc" /\ ~AssertGoodError(ij.good_error, r)
                       THEN [j EXCEPT !.pc = "assert"]
                       ELSE [j EXCEPT !.pc = "cc"]
  /\ UNCHANGED <<uVars, hb>>

\* The output is at its end or a restart was requested: the rest is ignored
\* and pr.wait () is checked.
IjWait(ok) ==
  /\ ij.pc = "cc"
  /\ ij' = IF ~ok /\ ~ij.good_error THEN [ij EXCEPT !.pc = "failed"]
           ELSE IjEndBody(ij, ij.restart)
  /\ UNCHANGED <<uVars, hb>>

\* The loop condition fails: inject_prerequisites returns.
IjReturn ==
  /\ ij.pc = "loop"
  /\ ~ij.restart
  /\ ij' = [ij EXCEPT !.pc = "done"]
  /\ UNCHANGED <<uVars, hb>>

NextInject ==
  \/ IjCached
  \/ IjCacheRead
  \/ IjLaunch
  \/ \E h \in Headers, rel \in BOOLEAN : IjReport(h, rel)
  \/ \E ok \in BOOLEAN : AddSearch(ok)
  \/ \E ok \in BOOLEAN, st \in {"unknown", "unchanged", "changed"} : AddMatch(ok, st)
  \/ \E ok \in BOOLEAN : AddUpdate(ok)
  \/ AddExpect
  \/ AddPush
  \/ \E ok \in BOOLEAN : IjWait(ok)
  \/ IjReturn

SpecInject == InitInject /\ [][NextInject]_vars

\* Every step that is enabled is eventually taken: the compiler's output
\* ends and each call returns.
SpecInjectFair == SpecInject /\ WF_vars(NextInject)

(***************************************************************************)
(* Properties of the extraction loop.                                      *)
(***************************************************************************)
\* add has returned for the header in ij.cur.
AddReturned == ij.cur.h # 0 /\ Len(ij.cur.log) = Len(AddSteps(ij.cur.cache))

\* C31: on the VC path add requests a restart for every header that a C1083
\* line reported: the assertion assert (!good_error || restart) holds
\* whenever add has returned.
C31_MissingRestarts ==
  (ij.cid = "msvc" /\ AddReturned /\ ~ij.cur.cache /\ ij.cur.rel) =>
    (ij.cur.restart /\ ij.pc # "assert")

\* C32: for a header that came from the compiler add requests a restart if
\* and only if update called execute_direct and the call moved the header
\* to a new state other than unchanged; a header that was unchanged or
\* changed before the call causes no restart.
C32_RestartIffOwnUpdate ==
  (ij.cur.h # 0 /\ ~ij.cur.cache /\ ij.cur.ns # "none") =>
    /\ ij.cur.restart <=> /\ ij.cur.os # "unchanged"
                          /\ ij.cur.ns # ij.cur.os
                          /\ ij.cur.ns # "unchanged"
    /\ ij.cur.os \in {"unchanged", "changed"} => ~ij.cur.restart

\* On the second compiler run a header that was already changed has been
\* added without a restart.
C32_Witness ==
  /\ ij.launches = 2
  /\ AddReturned
  /\ ~ij.cur.cache
  /\ ij.cur.os = "changed"
  /\ ~ij.cur.restart

\* C33: the statements of add run in the order search, match, update,
\* dd.expect (compiler path only), push_back; the depdb is untouched before
\* dd.expect and prerequisite_targets before push_back; a header whose
\* mapping, match or update failed was neither expected in the depdb nor
\* appended.
C33_AddOrder ==
  ij.cur.h # 0 =>
    /\ IsPrefix(ij.cur.log, IF ij.cur.cache
                              THEN <<"search", "match", "update", "push">>
                              ELSE <<"search", "match", "update", "expect", "push">>)
    /\ (ij.pc = "add" \/ ij.cur.failed) =>
         /\ (\A k \in 1..Len(ij.cur.log) : ij.cur.log[k] # "expect") => ij.dd = ij.cur.dd0
         /\ Len(ij.pts) = ij.cur.n0
    /\ AddReturned =>
         /\ Len(ij.pts) = ij.cur.n0 + 1
         /\ ij.pts[Len(ij.pts)] = ij.cur.h
    /\ ij.cur.failed =>
         /\ ij.pc = "failed"
         /\ Len(ij.cur.log) <= 2
         /\ ij.dd = ij.cur.dd0
         /\ Len(ij.pts) = ij.cur.n0

\* After one header was added, the update of the next one reported by the
\* compiler failed.
C33_Witness ==
  /\ ij.cur.failed
  /\ ~ij.cur.cache
  /\ ij.cur.log = <<"search", "match">>
  /\ Len(ij.pts) = 1
  /\ ij.dd # <<>> /\ ij.dd = ij.cur.dd0

\* C34: while every compiler run has reported the processed headers again
\* as they were, the headers the current run has reported are the first of
\* prerequisite_targets, each once and in the order reported, and all of
\* them once nothing is left to skip; skip_count is their number.
C34_EachOnce ==
  (ij.same /\ ij.pass = "cc" /\ ij.pc \in {"cc", "loop", "done"}) =>
    /\ IsPrefix(ij.run, ij.pts)
    /\ ij.skip = 0 => ij.run = ij.pts
    /\ ij.skip_count = Len(ij.pts)

\* The call returned after a restart: the second run skipped the first
\* header and added the second.
C34_Witness ==
  /\ ij.pc = "done"
  /\ ij.same
  /\ ij.launches = 2
  /\ ij.run = <<1, 2>>
  /\ ij.pts = <<1, 2>>

\* C35: the loop ends, by a return or a failure; a restart requested by a
\* compiler pass comes with at least one header committed by that pass, and
\* a compiler pass without a restart is the last one.
C35_Terminates ==
  /\ <>(ij.pc \in {"done", "failed", "assert"})
  /\ []((ij.pc = "loop" /\ ij.restart /\ ij.pass = "cc") => ij.skip_count > ij.n0)
  /\ []((ij.pc = "done") => (~ij.restart /\ ij.launches <= NumHeaders + 1))

\* The call returned after two restarts of the compiler pass.
C35_Witness ==
  /\ ij.pc = "done"
  /\ ij.launches = 3
  /\ ij.skip_count = 2

\* The assertion failed for a header whose target was already changed before
\* the call.
C31_AlreadyChanged ==
  /\ ij.pc = "assert"
  /\ AddReturned
  /\ ij.cur.rel
  /\ ij.cur.os = "changed"
  /\ ~ij.cur.restart

(***************************************************************************)
(* parse_here_document (libbuild2/script/parser.cxx): the lines of one     *)
(* here-document in the pre-parse, which records their tokens and strips   *)
(* the indentation from the recorded tokens, and in the execute pass,      *)
(* which reads the recorded tokens.  A line is a sequence of tokens before *)
(* its newline: nothing, or a word that takes the leading whitespace with  *)
(* it, an expansion, or a word followed by an expansion; all words are     *)
(* unquoted.                                                               *)
(***************************************************************************)
MaxHereLines == 3    \* lines of the here-document, the end marker line included
MaxIndent == 2       \* whitespaces in front of a line

\* The end marker em.
HbEnd == <<"E">>

HbWord(v) == [type |-> "word", value |-> v]
HbDollar == [type |-> "dollar", value |-> <<>>]
HbNewline == [type |-> "newline", value |-> <<>>]

HbTexts == {<<>>, <<"a">>, <<"E">>, <<"a", "E">>}
HbValues == {Spaces(i) \o t : i \in 0..MaxIndent, t \in HbTexts} \ {<<>>}
HbLines == {<<>>, <<HbDollar>>}
           \cup {<<HbWord(v)>> : v \in HbValues}
           \cup {<<HbWord(v), HbDollar>> : v \in HbValues}

\* The check for the end marker: a word followed by a newline that ends
\* with em after whitespaces only; the length of the whitespace prefix, or
\* Npos if the line is not the end marker.
EndPrefix(t, peek, em) ==
  LET v == t.value
      vn == Len(v)
      en == Len(em)
      n == vn - en
      f == StrFindFirstNotOf(v, " ", 0)
  IN IF /\ t.type = "word"
        /\ peek = "newline"
        /\ vn >= en
        /\ SubSeq(v, n + 1, vn) = em
        /\ (f = Npos \/ f >= n)
       THEN n ELSE Npos

\* assert (pre_parse_ || n == 0)
AssertStripped(pre_parse, n) == pre_parse \/ n = 0

\* rt.value.erase (0, sn)
HbEraseNone(v, sn) == v
HbErase(v, sn) == SubSeq(v, sn + 1, Len(v))

\* The first newline token at or after position i.
NextNewline(s, i) ==
  CHOOSE j \in i..Len(s) :
    /\ s[j].type = "newline"
    /\ \A k \in i..(j - 1) : s[k].type # "newline"

HbInit ==
  hb = [pc |-> "lines", pre_parse |-> TRUE, replay |-> <<>>, saved |-> <<>>,
        sp |-> <<>>, ri |-> 1, n |-> 0, what |-> ""]

InitHere == HbInit /\ UIdle /\ IjIdle

\* One turn of the loop over the lines in the pre-parse: the tokens of the
\* line are recorded as they are read; the end marker line ends the loop
\* and gives the strip prefix.
HbPreLine(line) ==
  LET toks == line \o <<HbNewline>>
      e == IF Len(toks) < 2 THEN Npos ELSE EndPrefix(toks[1], toks[2].type, HbEnd)
  IN /\ hb.pc = "lines"
     /\ hb.pre_parse
     /\ hb.n < MaxHereLines
     /\ hb' = IF e # Npos /\ AssertStripped(hb.pre_parse, e)
                THEN [hb EXCEPT !.replay = @ \o toks, !.saved = @ \o toks,
                                !.sp = SubSeq(toks[1].value, 1, e),
                                !.pc = "strip", !.n = @ + 1]
                ELSE [hb EXCEPT !.replay = @ \o toks, !.saved = @ \o toks,
                                !.n = @ + 1]
     /\ UNCHANGED <<uVars, ij>>

\* The end of the stream before the end marker.
HbPreEos ==
  /\ hb.pc = "lines"
  /\ hb.pre_parse
  /\ hb' = [hb EXCEPT !.pc = "failed",
                      !.what = "missing here-document end marker"]
  /\ UNCHANGED <<uVars, ij>>

\* One turn of the loop that strips the indentation prefix from the
\* recorded tokens, and its end, after which the execute pass starts with
\* the first recorded token.
HbStrip ==
  LET sn == Len(hb.sp)
      rt == hb.replay[hb.ri]
      erase == Len(rt.value) = sn
      rd == IF erase
              THEN SubSeq(hb.replay, 1, hb.ri - 1)
                   \o SubSeq(hb.replay, hb.ri + 1, Len(hb.replay))
              ELSE [hb.replay EXCEPT ![hb.ri].value = HbErase(@, sn)]
      r1 == IF erase THEN hb.ri ELSE hb.ri + 1
  IN /\ hb.pc = "strip"
     /\ hb' = IF hb.sp = <<>> \/ hb.ri > Len(hb.replay)
                THEN [hb EXCEPT !.pc = "lines", !.pre_parse = FALSE,
                                !.ri = 1, !.n = 0]
              ELSE IF rt.type = "newline"
                THEN [hb EXCEPT !.ri = @ + 1]
              ELSE IF rt.type # "word" \/ ~IsPrefix(hb.sp, rt.value)
                THEN [hb EXCEPT !.pc = "failed",
                                !.what = "unindented here-document line"]
              ELSE [hb EXCEPT !.replay = rd, !.ri = NextNewline(rd, r1) + 1]
     /\ UNCHANGED <<uVars, ij>>

\* One turn of the loop over the lines in the execute pass, on the recorded
\* tokens.
HbExecLine ==
  LET t == hb.replay[hb.ri]
      peek == IF hb.ri < Len(hb.replay) THEN hb.replay[hb.ri + 1].type ELSE "eos"
      e == EndPrefix(t, peek, HbEnd)
  IN /\ hb.pc = "lines"
     /\ ~hb.pre_parse
     /\ hb' = IF hb.ri > Len(hb.replay)
                THEN [hb EXCEPT !.pc = "failed",
                                !.what = "missing here-document end marker"]
              ELSE IF e # Npos
                THEN IF AssertStripped(hb.pre_parse, e)
                       THEN [hb EXCEPT !.pc = "done", !.ri = @ + 2]
                       ELSE [hb EXCEPT !.pc = "assert"]
              ELSE [hb EXCEPT !.ri = NextNewline(hb.replay, hb.ri) + 1, !.n = @ + 1]
     /\ UNCHANGED <<uVars, ij>>

NextHere ==
  \/ \E line \in HbLines : HbPreLine(line)
  \/ HbPreEos
  \/ HbStrip
  \/ HbExecLine

SpecHere == InitHere /\ [][NextHere]_vars

(***************************************************************************)
(* Properties of the here-document indentation.                            *)
(***************************************************************************)
\* The positions of the first tokens of the recorded lines (of a blank line,
\* its newline).
LineStarts(s) ==
  {i \in 1..Len(s) : i = 1 \/ s[i - 1].type = "newline"}

\* The recorded line that starts at i begins with the prefix.
BeginsWith(s, i, sp) == s[i].type = "word" /\ IsPrefix(sp, s[i].value)

\* The recorded tokens with the prefix taken off the first token of every
\* line, a token that was the prefix and nothing else being dropped.
Stripped(s, sp) ==
  SelectSeq([i \in 1..Len(s) |->
               IF i \in LineStarts(s) /\ s[i].type = "word"
                 THEN [s[i] EXCEPT !.value = SubSeq(@, Len(sp) + 1, Len(@))]
                 ELSE s[i]],
            LAMBDA t : t.type # "word" \/ t.value # <<>>)

\* C38: the strip prefix is the whitespace in front of the end marker on
\* its line; the pre-parse fails with "unindented here-document line"
\* exactly if a line that is not blank does not begin with a non-empty
\* prefix; otherwise the tokens the execute pass reads are the recorded ones
\* with the prefix taken off the first token of every line that is not
\* blank, the end marker line included, so that in the execute pass the
\* end marker line is the end marker alone and the assertion holds.
C38_StripPrefix ==
  /\ hb.pc # "assert"
  /\ (hb.pc = "strip" \/ ~hb.pre_parse) =>
       /\ Len(hb.saved) >= 2
       /\ hb.saved[Len(hb.saved) - 1] = HbWord(hb.sp \o HbEnd)
       /\ \A i \in 1..Len(hb.sp) : hb.sp[i] = " "
  /\ hb.what = "unindented here-document line" =>
       /\ hb.sp # <<>>
       /\ \E i \in LineStarts(hb.saved) :
            hb.saved[i].type # "newline" /\ ~BeginsWith(hb.saved, i, hb.sp)
  /\ ~hb.pre_parse =>
       /\ hb.what # "missing here-document end marker"
       /\ \A i \in LineStarts(hb.saved) :
            (hb.sp # <<>> /\ hb.saved[i].type # "newline") =>
              BeginsWith(hb.saved, i, hb.sp)
       /\ hb.replay = Stripped(hb.saved, hb.sp)
       /\ hb.replay[Len(hb.replay) - 1] = HbWord(HbEnd)
  /\ hb.pc = "done" =>
       /\ hb.ri = Len(hb.replay) + 1
       /\ hb.n = Cardinality(LineStarts(hb.saved)) - 1

\* A here-document indented by two whitespaces was read in both passes: the
\* first line is "  a" with an expansion, the second the prefix alone with
\* an expansion, whose word was dropped.
C38_Witness ==
  /\ hb.pc = "done"
  /\ hb.sp = <<" ", " ">>
  /\ hb.n = 2
  /\ hb.saved[1] = HbWord(<<" ", " ", "a">>)
  /\ hb.replay[1] = HbWord(<<"a">>)
  /\ Len(hb.replay) = Len(hb.saved) - 1

====
